---- MODULE Spec2Model ----
(***************************************************************************)
(* Model of the reminder scheduling and recovery engine of                 *)
(* src/src/telegram_listener.py: recurrence-rule normalisation and         *)
(* parsing, the scheduler's job store, task persistence, /delete_reminder, *)
(* job fires, process crash and the restore pass run at start-up.          *)
(*                                                                         *)
(* Strings are TLA+ strings; Python's str operations are modelled by what  *)
(* they do, character by character.  Time is in seconds; second 0 is a     *)
(* Monday 00:00 in the scheduler's time zone (Asia/Kolkata, fixed offset). *)
(***************************************************************************)
EXTENDS Integers, Sequences, FiniteSets, TLC

VARIABLES
    up,       \* the process is running (module imported, scheduler started)
    now,      \* the clock, seconds
    tasks,    \* the task table: row id i is tasks[i]
    jobs,     \* the scheduler's job store: task id -> job "reminder-<id>"
    fired,    \* history: how many times each task's payload was dispatched
    created,  \* history: trigger shape installed when the task was created
    last,     \* history: the operation that just completed and its result
    calls,    \* the calls of schedule_job_for_task in progress, one per thread
    notes,    \* the note table: a sequence of rows in insertion order
    reply,    \* the messages the operation that just completed sent to the user
    msg,      \* the command that process_message handled last
    poll,     \* main_loop: its position, its offset, the offset file, the server
    sessions, \* the table order_chat_session: row id i is sessions[i]
    inbound   \* the message process_message was called with last

vars ==
    <<up, now, tasks, jobs, fired, created, last, calls, notes, reply, msg, poll, sessions,
      inbound>>

(***************************************************************************)
(* Optional values: None is the empty tuple, a present value v is <<v>>.   *)
(***************************************************************************)
None == << >>
Some(v) == <<v>>
IsNone(o) == o = << >>
Val(o) == o[1]

(***************************************************************************)
(* Python str operations.                                                  *)
(***************************************************************************)
Max2(a, b) == IF a >= b THEN a ELSE b

\* s[i-1 : i-1+len(p)] == p  (1-based i)
MatchAt(s, p, i) ==
    /\ i >= 1
    /\ i + Len(p) - 1 <= Len(s)
    /\ SubSeq(s, i, i + Len(p) - 1) = p

\* p in s
Contains(s, p) == \E i \in 1..(Len(s) + 1) : MatchAt(s, p, i)

\* s.startswith(p)
StartsWith(s, p) == MatchAt(s, p, 1)

\* s.replace(old, new): every non-overlapping occurrence, left to right
RECURSIVE ReplaceFrom(_, _, _, _)
ReplaceFrom(s, old, new, i) ==
    IF i > Len(s) THEN ""
    ELSE IF MatchAt(s, old, i)
         THEN new \o ReplaceFrom(s, old, new, i + Len(old))
         ELSE SubSeq(s, i, i) \o ReplaceFrom(s, old, new, i + 1)

Replace(s, old, new) == ReplaceFrom(s, old, new, 1)

IsSpace(c) == c \in {" ", "\t", "\n", "\r"}

RECURSIVE LStrip(_)
LStrip(s) ==
    IF Len(s) > 0 /\ IsSpace(SubSeq(s, 1, 1)) THEN LStrip(SubSeq(s, 2, Len(s))) ELSE s

RECURSIVE RStrip(_)
RStrip(s) ==
    IF Len(s) > 0 /\ IsSpace(SubSeq(s, Len(s), Len(s)))
    THEN RStrip(SubSeq(s, 1, Len(s) - 1)) ELSE s

\* s.strip()
Strip(s) == RStrip(LStrip(s))

Lower26 == "abcdefghijklmnopqrstuvwxyz"
Upper26 == "ABCDEFGHIJKLMNOPQRSTUVWXYZ"

UpperChar(c) ==
    IF \E k \in 1..26 : SubSeq(Lower26, k, k) = c
    THEN LET k == CHOOSE k \in 1..26 : SubSeq(Lower26, k, k) = c
         IN  SubSeq(Upper26, k, k)
    ELSE c

LowerChar(c) ==
    IF \E k \in 1..26 : SubSeq(Upper26, k, k) = c
    THEN LET k == CHOOSE k \in 1..26 : SubSeq(Upper26, k, k) = c
         IN  SubSeq(Lower26, k, k)
    ELSE c

\* s.lower()
RECURSIVE Lower(_)
Lower(s) ==
    IF Len(s) = 0 THEN "" ELSE LowerChar(SubSeq(s, 1, 1)) \o Lower(SubSeq(s, 2, Len(s)))

\* s.upper()
RECURSIVE Upper(_)
Upper(s) ==
    IF Len(s) = 0 THEN "" ELSE UpperChar(SubSeq(s, 1, 1)) \o Upper(SubSeq(s, 2, Len(s)))

\* index of the first occurrence of the one-character string c in s at or
\* after i, or 0
RECURSIVE IndexFrom(_, _, _)
IndexFrom(s, c, i) ==
    IF i > Len(s) THEN 0
    ELSE IF SubSeq(s, i, i) = c THEN i ELSE IndexFrom(s, c, i + 1)

\* s.split(c) for a one-character separator: a sequence of strings
RECURSIVE Split(_, _)
Split(s, c) ==
    LET k == IndexFrom(s, c, 1) IN
    IF k = 0 THEN <<s>>
    ELSE <<SubSeq(s, 1, k - 1)>> \o Split(SubSeq(s, k + 1, Len(s)), c)

Digits10 == "0123456789"
IsDigit(c) == \E k \in 1..10 : SubSeq(Digits10, k, k) = c
DigitVal(c) == (CHOOSE k \in 1..10 : SubSeq(Digits10, k, k) = c) - 1

AllDigits(s) == Len(s) > 0 /\ \A i \in 1..Len(s) : IsDigit(SubSeq(s, i, i))

RECURSIVE DigitsVal(_)
DigitsVal(s) ==
    IF Len(s) = 0 THEN 0
    ELSE 10 * DigitsVal(SubSeq(s, 1, Len(s) - 1)) + DigitVal(SubSeq(s, Len(s), Len(s)))

\* int(s) for a str s: surrounding blanks and one sign are accepted, then
\* decimal digits; anything else raises ValueError
IntBody(s) ==
    LET t == Strip(s) IN
    IF Len(t) > 0 /\ SubSeq(t, 1, 1) \in {"+", "-"} THEN SubSeq(t, 2, Len(t)) ELSE t

IntOk(s) == AllDigits(IntBody(s))

IntVal(s) ==
    LET t == Strip(s) IN
    IF Len(t) > 0 /\ SubSeq(t, 1, 1) = "-" THEN 0 - DigitsVal(IntBody(s))
    ELSE DigitsVal(IntBody(s))

\* str(n) for a natural number n
RECURSIVE DecStr(_)
DecStr(n) ==
    IF n < 10 THEN SubSeq(Digits10, n + 1, n + 1)
    ELSE DecStr(n \div 10) \o SubSeq(Digits10, (n % 10) + 1, (n % 10) + 1)

(***************************************************************************)
(* normalize_rrule                                                         *)
(***************************************************************************)
\* the end (exclusive) of the run of characters other than ";" starting at i
RECURSIVE RunEnd(_, _)
RunEnd(s, i) ==
    IF i > Len(s) \/ SubSeq(s, i, i) = ";" THEN i ELSE RunEnd(s, i + 1)

\* UntilMatchEnd for the pattern ;UNTIL=[^;]+, whose ";" is not optional
UntilMatchEnd_NeedsSemicolon(s, i) ==
    IF MatchAt(s, ";UNTIL=", i) /\ RunEnd(s, i + 7) > i + 7
    THEN RunEnd(s, i + 7)
    ELSE 0

\* where a match of the pattern ;?UNTIL=[^;]+ that starts at i ends
\* (exclusive), or 0 when the pattern does not match at i
UntilMatchEnd(s, i) ==
    LET j == IF MatchAt(s, ";", i) THEN i + 1 ELSE i IN
    IF MatchAt(s, "UNTIL=", j) /\ RunEnd(s, j + 6) > j + 6
    THEN RunEnd(s, j + 6)
    ELSE 0

\* re.sub(r";?UNTIL=[^;]+", "", s)
RECURSIVE StripUntilFrom(_, _)
StripUntilFrom(s, i) ==
    IF i > Len(s) THEN ""
    ELSE IF UntilMatchEnd(s, i) # 0
         THEN StripUntilFrom(s, UntilMatchEnd(s, i))
         ELSE SubSeq(s, i, i) \o StripUntilFrom(s, i + 1)

StripUntil(s) == StripUntilFrom(s, 1)

\* the six frequency replacements, in the order the code applies them
FixFreq(s) ==
    LET r1 == Replace(s, "FREQ=MINUTE", "FREQ=MINUTELY")
        r2 == Replace(r1, "FREQ=MINUTES", "FREQ=MINUTELY")
        r3 == Replace(r2, "FREQ=HOUR", "FREQ=HOURLY")
        r4 == Replace(r3, "FREQ=HOURS", "FREQ=HOURLY")
        r5 == Replace(r4, "FREQ=DAY", "FREQ=DAILY")
    IN  Replace(r5, "FREQ=DAYS", "FREQ=DAILY")

\* normalize_rrule(rr) for rr None or a str; "not rr" holds of None and ""
normalize_rrule(rr) ==
    IF IsNone(rr) \/ Val(rr) = "" THEN rr
    ELSE LET s1 == FixFreq(Strip(Val(rr)))
             s2 == Replace(s1, "EVERYDAY", "")
             s3 == StripUntil(s2)
         IN  Some(IF StartsWith(s3, "RRULE:") THEN s3 ELSE "RRULE:" \o s3)

(***************************************************************************)
(* parse_rrule_to_interval_kwargs                                          *)
(***************************************************************************)
\* kv.split("=", 1): the text before and after the first "="
KeyOf(kv) == SubSeq(kv, 1, IndexFrom(kv, "=", 1) - 1)
ValueOf(kv) == SubSeq(kv, IndexFrom(kv, "=", 1) + 1, Len(kv))

\* the qualifiers of a rule, in order: <<key, value>> for every ;-separated
\* piece that holds an "=", keys and values stripped and upper-cased
RuleParts(rrule_str) ==
    LET pieces == Split(Replace(rrule_str, "RRULE:", ""), ";")
        kvs == SelectSeq(pieces, LAMBDA kv : IndexFrom(kv, "=", 1) # 0)
    IN  [i \in 1..Len(kvs) |-> <<Upper(Strip(KeyOf(kvs[i]))), Upper(Strip(ValueOf(kvs[i])))>>]

\* parts.get(key): a later piece with the same key overwrites an earlier one
PartsGet(parts, key) ==
    LET idx == {i \in 1..Len(parts) : parts[i][1] = key} IN
    IF idx = {} THEN None
    ELSE Some(parts[CHOOSE i \in idx : \A j \in idx : j <= i][2])

\* a str is true when it is not empty; None is false
Truthy(o) == ~IsNone(o) /\ Val(o) # ""

\* the cron trigger's weekday names (Monday is 0); the rule's value reaches
\* the trigger upper-cased and the trigger compares names ignoring case
WEEKDAYS == <<"MON", "TUE", "WED", "THU", "FRI", "SAT", "SUN">>

IsWeekdayName(w) == \E k \in 1..7 : WEEKDAYS[k] = w
WeekdayNum(w) == (CHOOSE k \in 1..7 : WEEKDAYS[k] = w) - 1

\* one item of a day_of_week expression: "*", a number, a weekday name, or
\* a first-last range of numbers or of names; its set of weekdays, or {} when
\* the cron trigger rejects the item (ValueError)
DowItem(e) ==
    LET k == IndexFrom(e, "-", 1)
        a == IF k = 0 THEN e ELSE SubSeq(e, 1, k - 1)
        b == IF k = 0 THEN e ELSE SubSeq(e, k + 1, Len(e))
    IN  IF e = "*" THEN 0..6
        ELSE IF AllDigits(a) /\ AllDigits(b)
             THEN IF DigitsVal(a) <= DigitsVal(b) /\ DigitsVal(b) <= 6
                  THEN DigitsVal(a)..DigitsVal(b) ELSE {}
        ELSE IF IsWeekdayName(a) /\ IsWeekdayName(b)
             THEN IF WeekdayNum(a) <= WeekdayNum(b)
                  THEN WeekdayNum(a)..WeekdayNum(b) ELSE {}
        ELSE {}

\* the weekdays a day_of_week expression (a comma-separated list) selects
DowDays(expr) ==
    LET items == Split(Strip(expr), ",") IN
    UNION {DowItem(items[i]) : i \in 1..Len(items)}

\* CronTrigger(day_of_week, hour, minute) constructs without ValueError
CronAccepts(day_of_week, hour, minute) ==
    LET items == Split(Strip(day_of_week), ",") IN
    /\ \A i \in 1..Len(items) : DowItem(items[i]) # {}
    /\ hour \in 0..23
    /\ minute \in 0..59

NoTrigger == [kind |-> "none"]
CronTrigger(day_of_week, hour, minute) ==
    [kind |-> "cron", day_of_week |-> day_of_week, hour |-> hour, minute |-> minute]
IntervalKwargs(unit, n) == [kind |-> "kwargs", unit |-> unit, n |-> n]

\* FreqMapping with an unknown frequency defaulting to every hour, not None
FreqMapping_HourlyDefault(freq, interval) ==
    CASE freq = "SECONDLY" -> IntervalKwargs("seconds", interval)
      [] freq = "MINUTELY" -> IntervalKwargs("minutes", interval)
      [] freq = "HOURLY"   -> IntervalKwargs("hours", interval)
      [] freq = "DAILY"    -> IntervalKwargs("days", interval)
      [] freq = "WEEKLY"   -> IntervalKwargs("weeks", interval)
      [] OTHER             -> IntervalKwargs("hours", 1)

\* mapping.get(freq): the keyword arguments of the interval, or None
FreqMapping(freq, interval) ==
    CASE freq = "SECONDLY" -> IntervalKwargs("seconds", interval)
      [] freq = "MINUTELY" -> IntervalKwargs("minutes", interval)
      [] freq = "HOURLY"   -> IntervalKwargs("hours", interval)
      [] freq = "DAILY"    -> IntervalKwargs("days", interval)
      [] freq = "WEEKLY"   -> IntervalKwargs("weeks", interval)
      [] OTHER             -> NoTrigger

\* CronBranch with the absent hour defaulting to 0, as the minute does
CronBranch_HourDefaultZero(byhour, byminute, byday) ==
    IF (Truthy(byhour) /\ ~IntOk(Val(byhour))) \/ (Truthy(byminute) /\ ~IntOk(Val(byminute)))
    THEN NoTrigger
    ELSE LET hour == IF Truthy(byhour) THEN IntVal(Val(byhour)) ELSE 0
             minute == IF Truthy(byminute) THEN IntVal(Val(byminute)) ELSE 0
             day_of_week == IF Truthy(byday) THEN Val(byday) ELSE "*"
         IN  IF CronAccepts(day_of_week, hour, minute)
             THEN CronTrigger(day_of_week, hour, minute)
             ELSE NoTrigger

\* the "specific time" branch: int() of a present value, the default of an
\* absent one; a ValueError of int() or of CronTrigger is caught and gives None
CronBranch(byhour, byminute, byday) ==
    IF (Truthy(byhour) /\ ~IntOk(Val(byhour))) \/ (Truthy(byminute) /\ ~IntOk(Val(byminute)))
    THEN NoTrigger
    ELSE LET hour == IF Truthy(byhour) THEN IntVal(Val(byhour)) ELSE 9
             minute == IF Truthy(byminute) THEN IntVal(Val(byminute)) ELSE 0
             day_of_week == IF Truthy(byday) THEN Val(byday) ELSE "*"
         IN  IF CronAccepts(day_of_week, hour, minute)
             THEN CronTrigger(day_of_week, hour, minute)
             ELSE NoTrigger

\* parse_rrule_to_interval_kwargs(rrule_str) for a str: a cron trigger, the
\* keyword arguments of an interval trigger, or None
parse_rrule_to_interval_kwargs(rrule_str) ==
    IF rrule_str = "" \/ ~StartsWith(rrule_str, "RRULE:") THEN NoTrigger
    ELSE LET parts == RuleParts(rrule_str)
             freq == IF IsNone(PartsGet(parts, "FREQ")) THEN "MINUTELY"
                     ELSE Val(PartsGet(parts, "FREQ"))
             ivl == PartsGet(parts, "INTERVAL")
             byhour == PartsGet(parts, "BYHOUR")
             byminute == PartsGet(parts, "BYMINUTE")
             byday == PartsGet(parts, "BYDAY")
         IN  IF ~IsNone(ivl) /\ ~IntOk(Val(ivl)) THEN NoTrigger
             ELSE IF Truthy(byhour) \/ Truthy(byminute) \/ Truthy(byday)
                  THEN CronBranch(byhour, byminute, byday)
                  ELSE FreqMapping(freq, IF IsNone(ivl) THEN 1 ELSE IntVal(Val(ivl)))

(***************************************************************************)
(* Triggers and the scheduler's job store                                  *)
(***************************************************************************)
\* seconds added to "now" for a one-time job and for the fallback job
OnceDelay == 60

DateTrigger(run_date) == [kind |-> "date", run_date |-> run_date]

UnitSeconds(unit) ==
    CASE unit = "seconds" -> 1
      [] unit = "minutes" -> 60
      [] unit = "hours"   -> 3600
      [] unit = "days"    -> 86400
      [] unit = "weeks"   -> 604800

\* the interval trigger's period; an interval of length 0 becomes 1 second
Period(unit, n) == IF UnitSeconds(unit) * n = 0 THEN 1 ELSE UnitSeconds(unit) * n

\* IntervalTrigger whose first fire is at the time it is built
IntervalTrigger_StartsNow(kw, t) ==
    [kind |-> "interval", unit |-> kw.unit, n |-> kw.n, start_date |-> t]

\* IntervalTrigger(timezone=TZ, **kw) built at time t: it starts one period
\* after t
IntervalTrigger(kw, t) ==
    [kind |-> "interval", unit |-> kw.unit, n |-> kw.n, start_date |-> t + Period(kw.unit, kw.n)]

\* the first second at or after t at which the cron trigger matches:
\* hour:minute:00 on a selected weekday
CronNext(trigger, t) ==
    LET tod == trigger.hour * 3600 + trigger.minute * 60
        d0 == t \div 86400
        ok(d) == (d % 7) \in DowDays(trigger.day_of_week) /\ d * 86400 + tod >= t
        d == CHOOSE d \in d0..(d0 + 7) : ok(d) /\ \A e \in d0..(d0 + 7) : ok(e) => d <= e
    IN  d * 86400 + tod

\* NextFireTime with a date trigger that comes due again a minute after it ran
NextFireTime_DateRepeats(trigger, previous, t) ==
    CASE trigger.kind = "date" ->
           IF IsNone(previous) THEN Some(trigger.run_date) ELSE Some(Val(previous) + 60)
      [] trigger.kind = "interval" ->
           IF IsNone(previous) THEN Some(trigger.start_date)
           ELSE Some(Val(previous) + Period(trigger.unit, trigger.n))
      [] trigger.kind = "cron" ->
           IF IsNone(previous) THEN Some(CronNext(trigger, t))
           ELSE Some(CronNext(trigger, Val(previous) + 1))

\* trigger.get_next_fire_time(previous_fire_time, now): None when the trigger
\* has no further fire time
NextFireTime(trigger, previous, t) ==
    CASE trigger.kind = "date" ->
           IF IsNone(previous) THEN Some(trigger.run_date) ELSE None
      [] trigger.kind = "interval" ->
           IF IsNone(previous) THEN Some(trigger.start_date)
           ELSE Some(Val(previous) + Period(trigger.unit, trigger.n))
      [] trigger.kind = "cron" ->
           IF IsNone(previous) THEN Some(CronNext(trigger, t))
           ELSE Some(CronNext(trigger, Val(previous) + 1))

\* the job store without job id
RemoveJob(store, id) == [j \in DOMAIN store \ {id} |-> store[j]]

\* scheduler.add_job(_run_plan, trigger=..., id=job_id, replace_existing=True):
\* the job store holds one job per id; rule and registered record the call
AddJob(store, id, trigger, params, rule, t) ==
    [j \in DOMAIN store \cup {id} |->
        IF j = id
        THEN [trigger |-> trigger, params |-> params, rule |-> rule, registered |-> t,
              next_run_time |-> Val(NextFireTime(trigger, None, t))]
        ELSE store[j]]

(***************************************************************************)
(* schedule_job_for_task                                                   *)
(***************************************************************************)
\* TriggerForRule that parses the rule before it looks for FREQ=ONCE
TriggerForRule_ParseFirst(schedule_rule, t) ==
    LET kw == parse_rrule_to_interval_kwargs(schedule_rule) IN
    CASE kw.kind = "cron"   -> kw
      [] kw.kind = "kwargs" -> IntervalTrigger(kw, t)
      [] OTHER              -> DateTrigger(t + OnceDelay)

\* TriggerForRule whose fallback for an unparsed rule is every hour
TriggerForRule_HourlyFallback(schedule_rule, t) ==
    IF Contains(schedule_rule, "FREQ=ONCE") THEN DateTrigger(t + OnceDelay)
    ELSE LET kw == parse_rrule_to_interval_kwargs(schedule_rule) IN
         CASE kw.kind = "cron"   -> kw
           [] kw.kind = "kwargs" -> IntervalTrigger(kw, t)
           [] OTHER              -> IntervalTrigger(IntervalKwargs("hours", 1), t)

\* the length of an interval in whole days
IntervalDays(unit, n) ==
    CASE unit = "seconds" -> n \div 86400
      [] unit = "minutes" -> n \div 1440
      [] unit = "hours"   -> n \div 24
      [] unit = "days"    -> n
      [] unit = "weeks"   -> 7 * n

\* IntervalTrigger(timezone=TZ, **kw) computes its start date now + interval,
\* which Python refuses (OverflowError) when it is past the year 9999; the
\* clock of the model starts in 2026
IntervalOverflows(kw) == IntervalDays(kw.unit, kw.n) > (9999 - 2026) * 365

\* building the trigger of a str rule raises inside the try block
TriggerRaises(schedule_rule) ==
    /\ ~Contains(schedule_rule, "FREQ=ONCE")
    /\ LET kw == parse_rrule_to_interval_kwargs(schedule_rule) IN
       kw.kind = "kwargs" /\ IntervalOverflows(kw)

\* the trigger the try block builds for a str rule at time t
TriggerForRule(schedule_rule, t) ==
    IF Contains(schedule_rule, "FREQ=ONCE") THEN DateTrigger(t + OnceDelay)
    ELSE LET kw == parse_rrule_to_interval_kwargs(schedule_rule) IN
         CASE kw.kind = "cron"   -> kw
           [] kw.kind = "kwargs" -> IntervalTrigger(kw, t)
           [] OTHER              -> DateTrigger(t + OnceDelay)

\* schedule_job_for_task(task_id, params, schedule_rule) at time t, with
\* schedule_rule None or a str: the job store it leaves and what it returns.
\* An existing job is removed before the try block; "FREQ=ONCE" in None raises
\* TypeError inside it, and so does an interval too long to add to the clock
\* (OverflowError): the error is caught and the call returns False.
schedule_job_for_task(store, task_id, params, schedule_rule, t) ==
    LET removed == IF task_id \in DOMAIN store THEN RemoveJob(store, task_id) ELSE store IN
    IF IsNone(schedule_rule) \/ TriggerRaises(Val(schedule_rule))
    THEN [jobs |-> removed, ret |-> FALSE]
    ELSE [jobs |-> AddJob(removed, task_id, TriggerForRule(Val(schedule_rule), t),
                          params, schedule_rule, t),
          ret |-> TRUE]

\* what a trigger is, apart from the instant it was built at
TriggerShape(trigger, t) ==
    CASE trigger.kind = "date" -> [kind |-> "date", delay |-> trigger.run_date - t]
      [] trigger.kind = "interval" -> [kind |-> "interval", unit |-> trigger.unit, n |-> trigger.n]
      [] trigger.kind = "cron" -> trigger

(***************************************************************************)
(* Bounds of the model                                                     *)
(***************************************************************************)
MaxTasks == 2      \* rows of the task table
MaxInitRows == 2   \* rows already in the table when the process first starts
MaxFires == 2      \* fires of one task
MaxTime == 30      \* the clock is not advanced by hand beyond this
TickSeconds == 30  \* one step of the clock between operations
MaxInterval == 3   \* INTERVAL values of the generated interval rules
MaxThreads == 2    \* threads that call schedule_job_for_task at the same time
MaxLatency == 1    \* seconds between a job's scheduled time and its dispatch
MaxNotes == 3      \* rows of the note table, and the largest note id
MaxUpdates == 3    \* updates the Telegram server receives for the bot
MaxHandles == 2    \* times one update is handed to its handler

TaskIds == 1..MaxTasks
Threads == 1..MaxThreads

(***************************************************************************)
(* The task table (src/db.py) and the payload                              *)
(***************************************************************************)
\* json.dumps of the payload built by persist_task_and_schedule, which is
\* determined by the plan's text
JsonDumps(text) == "{" \o text \o "}"

\* json.loads succeeds on the text of an object
JsonOk(params_json) ==
    Len(params_json) >= 2 /\ StartsWith(params_json, "{")
        /\ SubSeq(params_json, Len(params_json), Len(params_json)) = "}"

JsonLoads(params_json) == SubSeq(params_json, 2, Len(params_json) - 1)

TaskRow(params_json, schedule_rule, enabled) ==
    [params_json |-> params_json, schedule_rule |-> schedule_rule, enabled |-> enabled]

\* create_task: INSERT INTO task ...; returns cur.lastrowid
create_task(table, params, schedule_rule, enabled) ==
    Append(table, TaskRow(JsonDumps(params), schedule_rule, enabled))

\* plan_obj.get("schedule_rule", default): the key may be absent, or present
\* with the value None (JSON null) or a str
PlanGet(plan, default) == IF plan.has THEN plan.value ELSE default

Plan(has, value, text) == [has |-> has, value |-> value, text |-> text]

DefaultRule == "RRULE:FREQ=MINUTELY;INTERVAL=1"

(***************************************************************************)
(* History of the operation that just completed                            *)
(***************************************************************************)
Done(op, task_id, ret, had_job, params, rule, raw) ==
    [op |-> op, task_id |-> task_id, ret |-> ret, had_job |-> had_job,
     params |-> params, rule |-> rule, raw |-> raw]

Idle(op) == Done(op, 0, TRUE, FALSE, "", None, None)

\* a thread's call of schedule_job_for_task: where it stands (pc) and its
\* arguments
Call(pc, task_id, params, schedule_rule) ==
    [pc |-> pc, task_id |-> task_id, params |-> params, schedule_rule |-> schedule_rule]

\* a command as its handler reads it: the number and the unit of "every N
\* unit" or "in N unit", the hour (None when no time is given), the minute,
\* "am", "pm" or "" and the weekday word
Msg(cmd, num, unit, hour, minute, ampm, day) ==
    [cmd |-> cmd, num |-> num, unit |-> unit, hour |-> hour, minute |-> minute,
     ampm |-> ampm, day |-> day]

\* no command handled yet
NoMsg == Msg("none", 0, "", None, 0, "", "")

NoCalls == [th \in Threads |-> Call("idle", 0, "", None)]

\* main_loop and what it reads and writes.  pc is the position of the loop
\* ("stopped" before main_loop is called), offset its local variable, batch
\* the updates of data["result"] not yet handled.  file is the offset that
\* load_offset would read from .tg_offset, None when the file is absent or
\* empty.  The server has received the updates 1..arrived and holds those
\* above confirmed.  History: handled counts the calls of a handler per
\* update, high is the highest offset the file ever held.
Poll(pc, offset, batch, file, arrived, confirmed, handled, high) ==
    [pc |-> pc, offset |-> offset, batch |-> batch, file |-> file, arrived |-> arrived,
     confirmed |-> confirmed, handled |-> handled, high |-> high]

\* main_loop not called, no offset file, no update sent
NoPoll == Poll("stopped", None, << >>, None, 0, 0, [u \in 1..MaxUpdates |-> 0], 0)

\* a message process_message was called with: the chat it comes from, its
\* text, whether send_message delivered, and whether the chat had an active
\* session when the message came
Inbound(chat_id, text, sent, in_session) ==
    [chat_id |-> chat_id, text |-> text, sent |-> sent, in_session |-> in_session]

\* no message yet
NoInbound == Inbound("", "", TRUE, FALSE)

(***************************************************************************)
(* Operations                                                              *)
(***************************************************************************)
\* persist_task_and_schedule(user_chat_id, plan_obj) up to its return value:
\* the row is inserted with the plan's rule as given; the job is scheduled from
\* the normalized rule; last.ret tells whether it returns the task id or None
PersistTask(plan) ==
    /\ up
    /\ Len(tasks) < MaxTasks
    /\ LET tid == Len(tasks) + 1
           rule == normalize_rrule(PlanGet(plan, Some("")))
           res == schedule_job_for_task(jobs, tid, plan.text, rule, now)
       IN  /\ tasks' = create_task(tasks, plan.text, PlanGet(plan, Some(DefaultRule)), 1)
           /\ jobs' = res.jobs
           /\ created' = IF res.ret
                         THEN [created EXCEPT ![tid] =
                                 Some(TriggerShape(res.jobs[tid].trigger, now))]
                         ELSE created
           /\ last' = Done("persist", tid, res.ret, FALSE, plan.text, rule, PlanGet(plan, None))
    /\ UNCHANGED <<up, now, fired, calls, notes, poll, sessions>>

\* the message persist_task_and_schedule itself sends when the job was scheduled
ActiveMsg(scheduled) == IF scheduled THEN <<"Reminder scheduled and active">> ELSE << >>

\* persist_task_and_schedule called with a plan, apart from a command handler
persist_task_and_schedule(plan) ==
    /\ PersistTask(plan)
    /\ reply' = ActiveMsg(last'.ret)
    /\ UNCHANGED <<msg, inbound>>

\* a direct call schedule_job_for_task(task_id, params, schedule_rule)
ScheduleCall(task_id, params, schedule_rule) ==
    /\ up
    /\ LET res == schedule_job_for_task(jobs, task_id, params, schedule_rule, now)
       IN  /\ jobs' = res.jobs
           /\ last' = Done("schedule", task_id, res.ret, task_id \in DOMAIN jobs,
                           params, schedule_rule, schedule_rule)
    /\ reply' = << >>
    /\ UNCHANGED <<up, now, tasks, fired, created, calls, notes, msg, poll, sessions, inbound>>

\* delete_reminder that disables the row and leaves the job in the scheduler
delete_reminder_KeepJob(rid) ==
    /\ up
    /\ tasks' = [i \in DOMAIN tasks |->
                    IF i = rid THEN [tasks[i] EXCEPT !.enabled = 0] ELSE tasks[i]]
    /\ last' = Done("delete", rid, TRUE, rid \in DOMAIN jobs, "", None, None)
    /\ reply' = << >>
    /\ UNCHANGED <<up, now, jobs, fired, created, calls, notes, msg, poll, sessions, inbound>>

(***************************************************************************)
(* schedule_job_for_task step by step, for calls that run at the same time. *)
(* Each scheduler method takes the scheduler's lock and is one step.        *)
(***************************************************************************)
\* existing = scheduler.get_job(job_id), and the test of it
CallBegin(th, task_id, params, schedule_rule) ==
    /\ up
    /\ calls[th].pc = "idle"
    /\ calls' = [calls EXCEPT ![th] =
                    Call(IF task_id \in DOMAIN jobs THEN "remove" ELSE "try",
                         task_id, params, schedule_rule)]
    /\ last' = Done("begin", task_id, TRUE, task_id \in DOMAIN jobs, params,
                    schedule_rule, schedule_rule)
    /\ reply' = << >>
    /\ UNCHANGED <<up, now, tasks, jobs, fired, created, notes, msg, poll, sessions, inbound>>

\* scheduler.remove_job(job_id), which is outside the try block: it raises
\* JobLookupError out of schedule_job_for_task when the job is no longer there
CallRemove(th) ==
    /\ up
    /\ calls[th].pc = "remove"
    /\ LET c == calls[th] IN
       IF c.task_id \in DOMAIN jobs
       THEN /\ jobs' = RemoveJob(jobs, c.task_id)
            /\ calls' = [calls EXCEPT ![th].pc = "try"]
            /\ last' = Done("remove", c.task_id, TRUE, TRUE, c.params,
                            c.schedule_rule, c.schedule_rule)
       ELSE /\ jobs' = jobs
            /\ calls' = [calls EXCEPT ![th].pc = "raised"]
            /\ last' = Done("raise", c.task_id, FALSE, FALSE, c.params,
                            c.schedule_rule, c.schedule_rule)
    /\ reply' = << >>
    /\ UNCHANGED <<up, now, tasks, fired, created, notes, msg, poll, sessions, inbound>>

\* the try block: the trigger is built and scheduler.add_job(...,
\* replace_existing=True) installs the job; a None rule raises TypeError, which
\* is caught and returns False
CallTry(th) ==
    /\ up
    /\ calls[th].pc = "try"
    /\ LET c == calls[th] IN
       /\ jobs' = IF IsNone(c.schedule_rule) \/ TriggerRaises(Val(c.schedule_rule)) THEN jobs
                  ELSE AddJob(jobs, c.task_id, TriggerForRule(Val(c.schedule_rule), now),
                              c.params, c.schedule_rule, now)
       /\ calls' = [calls EXCEPT ![th].pc = "returned"]
       /\ last' = Done("register", c.task_id,
                       ~(IsNone(c.schedule_rule) \/ TriggerRaises(Val(c.schedule_rule))),
                       c.task_id \in DOMAIN jobs, c.params, c.schedule_rule,
                       c.schedule_rule)
    /\ reply' = << >>
    /\ UNCHANGED <<up, now, tasks, fired, created, notes, msg, poll, sessions, inbound>>

\* /delete_reminder <rid>: UPDATE task SET enabled=0 WHERE id=rid, then the job
\* reminder-<rid> is removed when the scheduler has it; the reply is the
\* success message whether or not a row or a job was there (ret)
delete_reminder(rid) ==
    /\ up
    /\ tasks' = [i \in DOMAIN tasks |->
                    IF i = rid THEN [tasks[i] EXCEPT !.enabled = 0] ELSE tasks[i]]
    /\ jobs' = IF rid \in DOMAIN jobs THEN RemoveJob(jobs, rid) ELSE jobs
    /\ last' = Done("delete", rid, TRUE, rid \in DOMAIN jobs, "", None, None)
    /\ reply' = <<"Reminder deleted successfully">>
    /\ UNCHANGED <<up, now, fired, created, calls, notes, msg, poll, sessions, inbound>>

\* /list_jobs: scheduler.get_jobs(), one entry per job with its id and next run
\* time; the empty set stands for the reply "No active scheduled jobs"
list_jobs(store) ==
    {[id |-> j, next_run |-> store[j].next_run_time] : j \in DOMAIN store}

\* the earliest next_run_time of the job store
Earliest(store) ==
    CHOOSE t \in {store[j].next_run_time : j \in DOMAIN store} :
        \A j \in DOMAIN store : t <= store[j].next_run_time

\* the scheduler runs job reminder-<task_id> at its next_run_time: _run_plan
\* dispatches the payload "late" seconds after the scheduled time (ok tells
\* whether run_call returned or raised, which _run_plan catches); the job is
\* re-armed at the trigger's next fire time after the scheduled one, or removed
\* when there is none
FireLate(task_id, ok, late) ==
    /\ up
    /\ task_id \in DOMAIN jobs
    /\ jobs[task_id].next_run_time = Earliest(jobs)
    /\ fired[task_id] < MaxFires
    /\ LET job == jobs[task_id]
           at == job.next_run_time
           next == NextFireTime(job.trigger, Some(at), Max2(now, at))
       IN  /\ now' = Max2(now, at) + late
           /\ jobs' = IF IsNone(next) THEN RemoveJob(jobs, task_id)
                      ELSE [jobs EXCEPT ![task_id].next_run_time = Val(next)]
           /\ last' = Done("fire", task_id, ok, TRUE, job.params, job.rule, None)
    /\ fired' = [fired EXCEPT ![task_id] = @ + 1]
    /\ reply' = << >>
    /\ UNCHANGED <<up, tasks, created, calls, notes, msg, poll, sessions, inbound>>

\* a fire after which a job whose dispatch raised is dropped from the scheduler
Fire_FailureRemoves(task_id, ok) ==
    /\ up
    /\ task_id \in DOMAIN jobs
    /\ jobs[task_id].next_run_time = Earliest(jobs)
    /\ fired[task_id] < MaxFires
    /\ LET job == jobs[task_id]
           at == job.next_run_time
           next == NextFireTime(job.trigger, Some(at), Max2(now, at))
       IN  /\ now' = Max2(now, at)
           /\ jobs' = IF IsNone(next) \/ ~ok THEN RemoveJob(jobs, task_id)
                      ELSE [jobs EXCEPT ![task_id].next_run_time = Val(next)]
           /\ last' = Done("fire", task_id, ok, TRUE, job.params, job.rule, None)
    /\ fired' = [fired EXCEPT ![task_id] = @ + 1]
    /\ reply' = << >>
    /\ UNCHANGED <<up, tasks, created, calls, notes, msg, poll, sessions, inbound>>

\* a fire dispatched at the scheduled time
Fire(task_id, ok) == FireLate(task_id, ok, 0)

\* time passes while no job is due
Advance ==
    /\ now + TickSeconds <= MaxTime
    /\ (up /\ DOMAIN jobs # {}) => now + TickSeconds <= Earliest(jobs)
    /\ now' = now + TickSeconds
    /\ last' = Idle("advance")
    /\ reply' = << >>
    /\ UNCHANGED <<up, tasks, jobs, fired, created, calls, notes, msg, poll, sessions, inbound>>

(***************************************************************************)
(* main_loop, step by step: the process may die between any two steps      *)
(***************************************************************************)
\* a user sends the bot a message or presses a button: the server queues the
\* update with the next update_id
UpdateArrives ==
    /\ poll.arrived < MaxUpdates
    /\ poll' = [poll EXCEPT !.arrived = @ + 1]
    /\ UNCHANGED <<up, now, tasks, jobs, fired, created, last, calls, notes, reply, msg,
                   sessions, inbound>>

\* load_offset(): the number in the file, None when it cannot be read
load_offset(file) == file

\* offset = load_offset() at the top of main_loop
main_loop ==
    /\ up
    /\ poll.pc = "stopped"
    /\ poll' = [poll EXCEPT !.pc = "get", !.offset = load_offset(poll.file)]
    /\ UNCHANGED <<up, now, tasks, jobs, fired, created, last, calls, notes, reply, msg,
                   sessions, inbound>>

\* "if offset:" holds of a number other than 0
OffsetGiven(offset) == ~IsNone(offset) /\ Val(offset) # 0

\* the server on getUpdates: a call with an offset confirms the updates below
\* it; the updates above the confirmed ones are the result
ConfirmedAfter(confirmed, offset) ==
    IF OffsetGiven(offset) THEN Max2(confirmed, Val(offset) - 1) ELSE confirmed

\* requests.get(getUpdates) and data.get("result"); an empty result leads
\* back to the top of the loop
getUpdates ==
    /\ up
    /\ poll.pc = "get"
    /\ LET confirmed == ConfirmedAfter(poll.confirmed, poll.offset)
           result == [k \in 1..(poll.arrived - confirmed) |-> confirmed + k]
       IN  /\ (result = << >>) => confirmed # poll.confirmed
           /\ poll' = [poll EXCEPT !.confirmed = confirmed, !.batch = result,
                                   !.pc = IF result = << >> THEN "get" ELSE "open"]
    /\ UNCHANGED <<up, now, tasks, jobs, fired, created, last, calls, notes, reply, msg,
                   sessions, inbound>>

\* offset = upd["update_id"] + 1, and the open(OFFSET_FILE, "w") of
\* save_offset, which empties the file
save_offset_open ==
    /\ up
    /\ poll.pc = "open"
    /\ poll' = [poll EXCEPT !.offset = Some(Head(poll.batch) + 1), !.file = None,
                            !.pc = "write"]
    /\ UNCHANGED <<up, now, tasks, jobs, fired, created, last, calls, notes, reply, msg,
                   sessions, inbound>>

\* f.write(str(offset)) and the close of the file at the end of the with
\* block: the file holds the offset
save_offset_write ==
    /\ up
    /\ poll.pc = "write"
    /\ poll' = [poll EXCEPT !.file = poll.offset, !.pc = "handle",
                            !.high = Max2(@, Val(poll.offset))]
    /\ UNCHANGED <<up, now, tasks, jobs, fired, created, last, calls, notes, reply, msg,
                   sessions, inbound>>

\* process_message(upd["message"]) or handle_callback_query(...) on the
\* update, then the next update of the result or the top of the loop
HandleUpdate ==
    /\ up
    /\ poll.pc = "handle"
    /\ poll.handled[Head(poll.batch)] < MaxHandles
    /\ poll' = [poll EXCEPT !.handled[Head(poll.batch)] = @ + 1,
                            !.batch = Tail(poll.batch),
                            !.pc = IF Tail(poll.batch) = << >> THEN "get" ELSE "open"]
    /\ UNCHANGED <<up, now, tasks, jobs, fired, created, last, calls, notes, reply, msg,
                   sessions, inbound>>

\* what is left of main_loop when the process dies: the files and the server
Stopped(p) == [p EXCEPT !.pc = "stopped", !.offset = None, !.batch = << >>]

\* the process dies: the job store and the variables of main_loop are in
\* memory and are lost, the table and the offset file stay
Crash ==
    /\ up
    /\ up' = FALSE
    /\ jobs' = << >>
    /\ last' = Idle("crash")
    /\ reply' = << >>
    /\ poll' = Stopped(poll)
    /\ UNCHANGED <<now, tasks, fired, created, calls, notes, msg, sessions, inbound>>

\* restore_saved_reminders_from_db: the rows with enabled=1 in id order, each
\* scheduled from its stored rule ("" for NULL); json.loads raising on a row
\* leaves the loop (the try block encloses the whole loop)
RECURSIVE RestoreFrom(_, _, _, _)
RestoreFrom(store, table, i, t) ==
    IF i > Len(table) THEN store
    ELSE IF table[i].enabled # 1 THEN RestoreFrom(store, table, i + 1, t)
    ELSE IF ~JsonOk(table[i].params_json) THEN store
    ELSE LET rule == IF IsNone(table[i].schedule_rule) THEN Some("")
                     ELSE table[i].schedule_rule
         IN  RestoreFrom(
                 schedule_job_for_task(store, i, JsonLoads(table[i].params_json), rule, t).jobs,
                 table, i + 1, t)

\* restore_saved_reminders_from_db that selects the rows whatever their
\* enabled flag
restore_saved_reminders_from_db_AllRows(store, table, t) ==
    RestoreFrom(store, [i \in DOMAIN table |-> [table[i] EXCEPT !.enabled = 1]], 1, t)

restore_saved_reminders_from_db(store, table, t) == RestoreFrom(store, table, 1, t)

\* a start that leaves the restore pass to a later moment
Start_NoRestore ==
    /\ ~up
    /\ up' = TRUE
    /\ jobs' = << >>
    /\ last' = Idle("restore")
    /\ reply' = << >>
    /\ UNCHANGED <<now, tasks, fired, created, calls, notes, msg, poll, sessions, inbound>>

\* a start whose restore pass disables the rows it could not read
Start_DisablesUnread ==
    /\ ~up
    /\ up' = TRUE
    /\ jobs' = restore_saved_reminders_from_db(<< >>, tasks, now)
    /\ tasks' = [i \in DOMAIN tasks |->
                    IF JsonOk(tasks[i].params_json) THEN tasks[i]
                    ELSE [tasks[i] EXCEPT !.enabled = 0]]
    /\ last' = Idle("restore")
    /\ reply' = << >>
    /\ UNCHANGED <<now, fired, created, calls, notes, msg, poll, sessions, inbound>>

\* the process starts: the module is imported, which starts an empty scheduler
\* and runs the restore pass once
Start ==
    /\ ~up
    /\ up' = TRUE
    /\ jobs' = restore_saved_reminders_from_db(<< >>, tasks, now)
    /\ last' = Idle("restore")
    /\ reply' = << >>
    /\ UNCHANGED <<now, tasks, fired, created, calls, notes, msg, poll, sessions, inbound>>

(***************************************************************************)
(* The note table (src/db.py)                                              *)
(***************************************************************************)
\* n as two digits
Two(n) == DecStr(n \div 10) \o DecStr(n % 10)

\* n as six digits
Six(n) == Two(n \div 10000) \o Two((n \div 100) % 100) \o Two(n % 100)

\* datetime.utcnow().isoformat() at second sec of the model's clock and micro
\* microseconds: the fraction is left out when it is zero.  The clock of the
\* model starts on 2026-11-02 and stays within the month.
IsoFormat(sec, micro) ==
    "2026-11-" \o Two(2 + sec \div 86400) \o "T" \o Two((sec % 86400) \div 3600) \o ":"
        \o Two((sec % 3600) \div 60) \o ":" \o Two(sec % 60)
        \o (IF micro = 0 THEN "" ELSE "." \o Six(micro))

\* the characters of a timestamp in the order of their code points
CharOrder == "-.0123456789:T"
CharRank(c) == CHOOSE k \in 1..Len(CharOrder) : SubSeq(CharOrder, k, k) = c

\* a < b as SQLite compares TEXT values (byte by byte, a prefix first)
RECURSIVE TextLess(_, _)
TextLess(a, b) ==
    IF Len(b) = 0 THEN FALSE
    ELSE IF Len(a) = 0 THEN TRUE
    ELSE IF SubSeq(a, 1, 1) # SubSeq(b, 1, 1)
         THEN CharRank(SubSeq(a, 1, 1)) < CharRank(SubSeq(b, 1, 1))
         ELSE TextLess(SubSeq(a, 2, Len(a)), SubSeq(b, 2, Len(b)))

\* the value of the column pinned in a row inserted without it
DefaultPinned == 0

\* a row of the table note; "at" records the instant of created_at in
\* microseconds
NoteRow(id, user_chat_id, text, sec, micro) ==
    [id |-> id, user_chat_id |-> user_chat_id, text |-> text,
     created_at |-> IsoFormat(sec, micro), at |-> sec * 1000000 + micro,
     pinned |-> DefaultPinned]

\* cur.lastrowid of an INSERT: one more than the largest id of the table
NextNoteId(table) ==
    IF Len(table) = 0 THEN 1
    ELSE 1 + (CHOOSE m \in {table[i].id : i \in DOMAIN table} :
                 \A i \in DOMAIN table : table[i].id <= m)

\* WHERE user_chat_id = ? AND id = ?
NoteMatches(row, user_chat_id, note_id) ==
    row.user_chat_id = user_chat_id /\ row.id = note_id

\* create_note(user_chat_id, text), and the reply of /note
create_note(user_chat_id, text, micro) ==
    /\ up
    /\ Len(notes) < MaxNotes
    /\ NextNoteId(notes) <= MaxNotes
    /\ notes' = Append(notes, NoteRow(NextNoteId(notes), user_chat_id, text, now, micro))
    /\ last' = Done("create_note", NextNoteId(notes), TRUE, FALSE, user_chat_id, None, None)
    /\ reply' = <<"Saved note">>
    /\ UNCHANGED <<up, now, tasks, jobs, fired, created, calls, msg, poll, sessions, inbound>>

\* delete_note that deletes the note with the id, whose ever it is
delete_note_AnyChat(user_chat_id, note_id) ==
    /\ up
    /\ notes' = SelectSeq(notes, LAMBDA row : row.id # note_id)
    /\ last' = Done("delete_note", note_id,
                    \E i \in DOMAIN notes : notes[i].id = note_id,
                    FALSE, user_chat_id, None, None)
    /\ reply' = IF last'.ret THEN <<"Deleted note">> ELSE <<"No note found">>
    /\ UNCHANGED <<up, now, tasks, jobs, fired, created, calls, msg, poll, sessions, inbound>>

\* delete_note(user_chat_id, note_id): DELETE ... WHERE user_chat_id = ? AND
\* id = ?, True when a row was deleted; and the reply of /delete_note
delete_note(user_chat_id, note_id) ==
    /\ up
    /\ notes' = SelectSeq(notes, LAMBDA row : ~NoteMatches(row, user_chat_id, note_id))
    /\ last' = Done("delete_note", note_id,
                    \E i \in DOMAIN notes : NoteMatches(notes[i], user_chat_id, note_id),
                    FALSE, user_chat_id, None, None)
    /\ reply' = IF last'.ret THEN <<"Deleted note">> ELSE <<"No note found">>
    /\ UNCHANGED <<up, now, tasks, jobs, fired, created, calls, msg, poll, sessions, inbound>>

\* UPDATE note SET pinned = value WHERE user_chat_id = ? AND id = ?
SetPinned(table, user_chat_id, note_id, value) ==
    [i \in DOMAIN table |->
        IF NoteMatches(table[i], user_chat_id, note_id)
        THEN [table[i] EXCEPT !.pinned = value] ELSE table[i]]

\* pin_note(user_chat_id, note_id): True when a row was updated
pin_note(user_chat_id, note_id) ==
    /\ up
    /\ notes' = SetPinned(notes, user_chat_id, note_id, 1)
    /\ last' = Done("pin_note", note_id,
                    \E i \in DOMAIN notes : NoteMatches(notes[i], user_chat_id, note_id),
                    FALSE, user_chat_id, None, None)
    /\ reply' = << >>
    /\ UNCHANGED <<up, now, tasks, jobs, fired, created, calls, msg, poll, sessions, inbound>>

\* unpin_note(user_chat_id, note_id): True when a row was updated
unpin_note(user_chat_id, note_id) ==
    /\ up
    /\ notes' = SetPinned(notes, user_chat_id, note_id, 0)
    /\ last' = Done("unpin_note", note_id,
                    \E i \in DOMAIN notes : NoteMatches(notes[i], user_chat_id, note_id),
                    FALSE, user_chat_id, None, None)
    /\ reply' = << >>
    /\ UNCHANGED <<up, now, tasks, jobs, fired, created, calls, msg, poll, sessions, inbound>>

\* ORDER BY pinned DESC, created_at DESC allows row a before row b
MayPrecede(a, b) ==
    \/ a.pinned > b.pinned
    \/ a.pinned = b.pinned /\ ~TextLess(a.created_at, b.created_at)

\* the sequences of the rows of a set, each row once
Orderings(rows) ==
    {f \in [1..Cardinality(rows) -> rows] : \A i, j \in DOMAIN f : i # j => f[i] # f[j]}

\* list_notes with the rows ordered by created_at alone
list_notes_ByCreatedOnly(table, user_chat_id) ==
    {f \in Orderings({table[i] : i \in {k \in DOMAIN table :
                                          table[k].user_chat_id = user_chat_id}}) :
        \A i, j \in DOMAIN f : i < j => ~TextLess(f[i].created_at, f[j].created_at)}

\* list_notes(user_chat_id): SELECT ... WHERE user_chat_id = ? ORDER BY pinned
\* DESC, created_at DESC.  SQL leaves the order of rows with equal keys open:
\* the value is the set of the results the query may give.
list_notes(table, user_chat_id) ==
    {f \in Orderings({table[i] : i \in {k \in DOMAIN table :
                                          table[k].user_chat_id = user_chat_id}}) :
        \A i, j \in DOMAIN f : i < j => MayPrecede(f[i], f[j])}

(***************************************************************************)
(* Inputs                                                                  *)
(***************************************************************************)
Texts == {"water", "tea"}

\* rules the command handlers build, by the lines that build them
OnceRule == "RRULE:FREQ=ONCE;RUN_AT=2026-11-04T10:00:00+05:30"
MinutelyRule == "RRULE:FREQ=MINUTELY;INTERVAL=1"
DailyAtRule == "RRULE:FREQ=DAILY;BYHOUR=9;BYMINUTE=30"
OnceRuleLater == "RRULE:FREQ=ONCE;RUN_AT=2027-01-01T00:00:00+05:30"
WeeklyMondayRule == "RRULE:FREQ=WEEKLY;BYDAY=MO;BYHOUR=9;BYMINUTE=0"

\* the well-formed interval rule RRULE:FREQ=X;INTERVAL=n
IntervalRule(freq, n) == "RRULE:FREQ=" \o freq \o ";INTERVAL=" \o DecStr(n)

Frequencies == {"SECONDLY", "MINUTELY", "HOURLY", "DAILY", "WEEKLY"}

IntervalRules == {IntervalRule(f, n) : f \in Frequencies, n \in 1..MaxInterval}

\* rules with a singular or plural unit in place of the frequency
AliasRules ==
    {"RRULE:FREQ=" \o a \o ";INTERVAL=2" :
        a \in {"MINUTE", "MINUTES", "HOUR", "HOURS", "DAY", "DAYS"}}

\* rules with BYHOUR, BYMINUTE or BYDAY
CalendarRules ==
    {DailyAtRule,
     "RRULE:FREQ=DAILY;BYHOUR=0",
     "RRULE:FREQ=DAILY;BYHOUR=0;BYMINUTE=0",
     "RRULE:BYMINUTE=15",
     WeeklyMondayRule,
     "RRULE:FREQ=WEEKLY;BYDAY=MON;BYHOUR=9;BYMINUTE=0",
     "RRULE:FREQ=WEEKLY;BYDAY=SUN",
     "RRULE:FREQ=DAILY;BYDAY=MON-FRI;BYHOUR=7",
     "RRULE:FREQ=HOURLY;INTERVAL=2;BYHOUR=18",
     "RRULE:FREQ=ONCE;BYHOUR=9",
     "FREQ=DAILY;BYHOUR=9",
     "RRULE:FREQ=DAILY;BYHOUR=25",
     "RRULE:FREQ=DAILY;BYMINUTE=60",
     "RRULE:FREQ=WEEKLY;BYDAY=XX",
     "RRULE:FREQ=DAILY;BYHOUR=NINE",
     "RRULE:FREQ=DAILY;INTERVAL=X;BYHOUR=9",
     "RRULE:FREQ=DAILY;BYHOUR="}

\* empty, garbage, incomplete and other rules
OddRules ==
    {"", "hello", "RRULE:INTERVAL=2", "FREQ=DAILY;INTERVAL=1", "RRULE:FREQ=DAILY;INTERVAL=x",
     "RRULE:FREQ=YEARLY", "RRULE:FREQ=MONTHLY;INTERVAL=2", "RRULE:FREQ=ONCE", OnceRule,
     OnceRuleLater,
     "RRULE:FREQ=DAILY", "RRULE:FREQ=DAILY;INTERVAL=0",
     "RRULE:FREQ=DAILY;UNTIL=20270101;INTERVAL=2", " rrule:freq=daily ; interval = 3 "}

\* rules with an UNTIL qualifier first, in the middle, last and twice
UntilRules ==
    {"RRULE:UNTIL=20270101T000000Z;FREQ=DAILY;INTERVAL=2",
     "RRULE:FREQ=WEEKLY;INTERVAL=2;UNTIL=20270101T000000Z",
     "UNTIL=20270101;FREQ=DAILY",
     "RRULE:FREQ=DAILY;UNTIL=20270101;BYHOUR=7;UNTIL=20280101",
     "RRULE:FREQ=HOUR;UNTIL=20270101;INTERVAL=3"}

WideRules == IntervalRules \cup AliasRules \cup CalendarRules \cup OddRules \cup UntilRules

\* the plans of a specification: the key absent, JSON null, or a rule
PlansOver(rules) ==
    {Plan(FALSE, None, "water"), Plan(TRUE, None, "water")}
        \cup {Plan(TRUE, Some(r), "water") : r \in rules}

ProgramRules == {OnceRule, MinutelyRule, DailyAtRule}

(***************************************************************************)
(* The table the process finds when it first starts                        *)
(***************************************************************************)
\* rows of an enabled and of a disabled daily task, and an enabled row whose
\* params_json is not the text of a JSON object (the table is a file that
\* outlives the process; restore has to cope with what it holds)
InitRows ==
    {TaskRow(JsonDumps("water"), Some("RRULE:FREQ=DAILY;INTERVAL=1"), 1),
     TaskRow("{water", Some("RRULE:FREQ=DAILY;INTERVAL=1"), 1),
     TaskRow(JsonDumps("water"), Some("RRULE:FREQ=DAILY;INTERVAL=1"), 0)}

InitialTables == UNION {[1..n -> InitRows] : n \in 0..MaxInitRows}

(***************************************************************************)
(* Spec: the program.  The process starts on the table it finds, then      *)
(* handles requests, fires jobs, may crash and start again.                *)
(***************************************************************************)
Init ==
    /\ up = FALSE
    /\ now = 0
    /\ tasks \in InitialTables
    /\ jobs = << >>
    /\ fired = [i \in TaskIds |-> 0]
    /\ created = [i \in TaskIds |-> None]
    /\ last = Idle("init")
    /\ calls = NoCalls
    /\ notes = << >>
    /\ reply = << >>
    /\ msg = NoMsg
    /\ poll = NoPoll
    /\ sessions = << >>
    /\ inbound = NoInbound

Next ==
    \/ \E plan \in PlansOver(ProgramRules) : persist_task_and_schedule(plan)
    \/ \E rid \in TaskIds : delete_reminder(rid)
    \/ \E task_id \in TaskIds, ok \in BOOLEAN : Fire(task_id, ok)
    \/ Advance
    \/ Crash
    \/ Start

Spec == Init /\ [][Next]_vars

(***************************************************************************)
(* SpecApi: direct calls of schedule_job_for_task on a running process.    *)
(***************************************************************************)
ApiRules == {None, Some(OnceRule), Some(MinutelyRule)}

InitApi ==
    /\ up = TRUE
    /\ now = 0
    /\ tasks = << >>
    /\ jobs = << >>
    /\ fired = [i \in TaskIds |-> 0]
    /\ created = [i \in TaskIds |-> None]
    /\ last = Idle("init")
    /\ calls = NoCalls
    /\ notes = << >>
    /\ reply = << >>
    /\ msg = NoMsg
    /\ poll = NoPoll
    /\ sessions = << >>
    /\ inbound = NoInbound

\* the calls: every payload and rule for task 1, one more task beside it
ApiCalls ==
    {<<1, params, rule>> : params \in Texts, rule \in ApiRules}
        \cup {<<i, "water", Some(MinutelyRule)>> : i \in TaskIds \ {1}}

NextApi ==
    \/ \E call \in ApiCalls : ScheduleCall(call[1], call[2], call[3])
    \/ \E rid \in TaskIds : delete_reminder(rid)
    \/ \E task_id \in TaskIds, ok \in BOOLEAN : Fire(task_id, ok)
    \/ Advance

SpecApi == InitApi /\ [][NextApi]_vars

(***************************************************************************)
(* SpecRules: one task created from each rule of the wide rule set, fired, *)
(* lost in a crash and restored.                                           *)
(***************************************************************************)
NextRules ==
    \/ \E plan \in PlansOver(WideRules) : Len(tasks) = 0 /\ persist_task_and_schedule(plan)
    \/ \E task_id \in TaskIds, ok \in BOOLEAN : Fire(task_id, ok)
    \/ Advance
    \/ Crash
    \/ Start

SpecRules == InitApi /\ [][NextRules]_vars

(***************************************************************************)
(* SpecRace: threads that call schedule_job_for_task for task 1 at the     *)
(* same time, step by step, while the job of task 1 may fire.  The process *)
(* starts with no job or with a job for task 1 already registered.         *)
(***************************************************************************)
RaceRules == {OnceRule, "RRULE:FREQ=SECONDLY;INTERVAL=1"}

InitRace ==
    /\ up = TRUE
    /\ now = 0
    /\ tasks = << >>
    /\ jobs \in {<< >>} \cup
                {schedule_job_for_task(<< >>, 1, "water", Some(r), 0).jobs : r \in RaceRules}
    /\ fired = [i \in TaskIds |-> 0]
    /\ created = [i \in TaskIds |-> None]
    /\ last = Idle("init")
    /\ calls = NoCalls
    /\ notes = << >>
    /\ reply = << >>
    /\ msg = NoMsg
    /\ poll = NoPoll
    /\ sessions = << >>
    /\ inbound = NoInbound

NextRace ==
    \/ \E th \in Threads, params \in Texts, r \in RaceRules : CallBegin(th, 1, params, Some(r))
    \/ \E th \in Threads : CallRemove(th)
    \/ \E th \in Threads : CallTry(th)
    \/ \E task_id \in TaskIds, ok \in BOOLEAN : Fire(task_id, ok)

SpecRace == InitRace /\ [][NextRace]_vars

(***************************************************************************)
(* SpecClock: one task created from an interval or a calendar rule, at     *)
(* Monday 00:00 or at Monday 10:00, and fired with dispatch latency.       *)
(***************************************************************************)
MondayTen == 10 * 3600

ClockRules == IntervalRules \cup CalendarRules

InitClock ==
    /\ up = TRUE
    /\ now \in {0, MondayTen}
    /\ tasks = << >>
    /\ jobs = << >>
    /\ fired = [i \in TaskIds |-> 0]
    /\ created = [i \in TaskIds |-> None]
    /\ last = Idle("init")
    /\ calls = NoCalls
    /\ notes = << >>
    /\ reply = << >>
    /\ msg = NoMsg
    /\ poll = NoPoll
    /\ sessions = << >>
    /\ inbound = NoInbound

NextClock ==
    \/ \E plan \in PlansOver(ClockRules) : Len(tasks) = 0 /\ persist_task_and_schedule(plan)
    \/ \E task_id \in TaskIds, ok \in BOOLEAN, late \in 0..MaxLatency :
          FireLate(task_id, ok, late)
    \/ Advance

SpecClock == InitClock /\ [][NextClock]_vars

(***************************************************************************)
(* The handlers of /remind and /emailsummary in process_message            *)
(***************************************************************************)
\* what persist_task_and_schedule returns after the step: the task id, or None
Tid(done) == IF done.ret THEN Some(done.task_id) ELSE None

\* f"{tid}"
TidStr(tid) == IF IsNone(tid) THEN "None" ELSE DecStr(Val(tid))

\* the if/else on tid of a handler: the confirmation with the task id, or the
\* failure message (the messages are modelled without their emoji)
Confirm(tid, success, failure) ==
    IF ~IsNone(tid) THEN <<success \o " (task id=" \o TidStr(tid) \o ")">> ELSE <<failure>>

\* the chain on the unit word of "every N unit", with the rule of its else
\* branch
UnitRule(num, unit, otherwise) ==
    IF Contains(unit, "second") THEN "RRULE:FREQ=SECONDLY;INTERVAL=" \o DecStr(num)
    ELSE IF Contains(unit, "minute") THEN "RRULE:FREQ=MINUTELY;INTERVAL=" \o DecStr(num)
    ELSE IF Contains(unit, "hour") THEN "RRULE:FREQ=HOURLY;INTERVAL=" \o DecStr(num)
    ELSE IF Contains(unit, "day") THEN "RRULE:FREQ=DAILY;INTERVAL=" \o DecStr(num)
    ELSE otherwise

\* int(group or default) of an optional group of digits
IntOr(group, default) == IF IsNone(group) THEN default ELSE DigitsVal(Val(group))

\* the values persist_task_and_schedule may return
Tids == {None} \cup {Some(i) : i \in TaskIds}

\* what a branch of process_message does with a command: the plan it hands to
\* persist_task_and_schedule, the messages it sends before that and, for
\* each value persist_task_and_schedule may return, the messages it sends
\* after; msg is the command as the branch read it
Branch(plan, before, after, m) == [plan |-> plan, before |-> before, after |-> after, msg |-> m]

\* /remind order <item> every [N] <unit> from <store>: the confirmation is
\* sent whatever persist_task_and_schedule returned
remind_order_recurring(group1, unit) ==
    LET num == IntOr(group1, 1)
        rrule == UnitRule(num, unit, "RRULE:FREQ=DAILY;INTERVAL=1")
    IN  Branch(Plan(TRUE, Some(rrule), "milk"), << >>,
               [tid \in Tids |-> <<"Scheduled recurring order (task id=" \o TidStr(tid) \o ")">>],
               Msg("remind_order", num, unit, None, 0, "", ""))

\* datetime.datetime.now(TZ).isoformat() at a whole second
IsoFormatTZ(sec) == IsoFormat(sec, 0) \o "+05:30"

\* /remind order <item> in N <unit> from <store>, at time t
remind_order_once(group1, unit, t) ==
    LET num == DigitsVal(group1)
        delay_seconds == IF Contains(unit, "second") THEN num
                         ELSE IF Contains(unit, "minute") THEN num * 60
                         ELSE num * 3600
        rrule == "RRULE:FREQ=ONCE;RUN_AT=" \o IsoFormatTZ(t + delay_seconds)
    IN  Branch(Plan(TRUE, Some(rrule), "milk"), << >>,
               [tid \in Tids |->
                   Confirm(tid, "Scheduled one-time order", "Failed to schedule order.")],
               Msg("remind_order_once", num, unit, None, 0, "", ""))

\* /remind <action> every N <unit>
remind_every(group_num, unit) ==
    LET num == DigitsVal(group_num)
        rrule == UnitRule(num, unit, "RRULE:FREQ=HOURLY;INTERVAL=1")
    IN  Branch(Plan(TRUE, Some(rrule), "water"), << >>,
               [tid \in Tids |-> Confirm(tid, "Created reminder", "Failed to create reminder.")],
               Msg("remind_every", num, unit, None, 0, "", ""))

\* /remind <instruction> with no "every N unit": the plan is the JSON object
\* the language model gave
remind_llm(plan) ==
    Branch(plan, <<"Got it">>,
           [tid \in Tids |->
               Confirm(tid, "Created reminder", "Failed to create reminder. Please try again.")],
           Msg("remind_llm", 0, "", None, 0, "", ""))

\* the hour of the 24-hour clock: pm adds 12 below 12, 12 am is 0
Hour24(hour, ampm) ==
    IF ampm = Some("pm") /\ hour < 12 THEN hour + 12
    ELSE IF ampm = Some("am") /\ hour = 12 THEN 0
    ELSE hour

\* the text of an optional group, "" for None
GroupText(group) == IF IsNone(group) THEN "" ELSE Val(group)

\* /emailsummary every day at H[:MM][am|pm]
emailsummary_daily(group1, group2, group3) ==
    LET hour == Hour24(DigitsVal(group1), group3)
        minute == IntOr(group2, 0)
        rrule == "RRULE:FREQ=DAILY;BYHOUR=" \o DecStr(hour) \o ";BYMINUTE=" \o DecStr(minute)
    IN  Branch(Plan(TRUE, Some(rrule), "Daily Gmail summary"), << >>,
               [tid \in Tids |->
                   Confirm(tid, "Scheduled Gmail summary every day",
                           "Failed to schedule daily Gmail summary.")],
               Msg("emailsummary_daily", 0, "", Some(DigitsVal(group1)), minute,
                   GroupText(group3), ""))

\* weekday_map[day_token]
weekday_map(day_token) ==
    CASE day_token \in {"monday", "mon"}    -> "MO"
      [] day_token \in {"tuesday", "tue"}   -> "TU"
      [] day_token \in {"wednesday", "wed"} -> "WE"
      [] day_token \in {"thursday", "thu"}  -> "TH"
      [] day_token \in {"friday", "fri"}    -> "FR"
      [] day_token \in {"saturday", "sat"}  -> "SA"
      [] day_token \in {"sunday", "sun"}    -> "SU"

\* /emailsummary every week on <weekday> [at H[:MM][am|pm]]
emailsummary_weekly(day_token, group2, group3, group4) ==
    LET hour == Hour24(IntOr(group2, 9), group4)
        minute == IntOr(group3, 0)
        byday == weekday_map(day_token)
        rrule == "RRULE:FREQ=WEEKLY;BYDAY=" \o byday \o ";BYHOUR=" \o DecStr(hour)
                     \o ";BYMINUTE=" \o DecStr(minute)
    IN  Branch(Plan(TRUE, Some(rrule), "Weekly Gmail summary"), << >>,
               [tid \in Tids |->
                   Confirm(tid, "Scheduled weekly Gmail summary",
                           "Failed to schedule weekly Gmail summary.")],
               Msg("emailsummary_weekly", 0, "",
                   IF IsNone(group2) THEN None ELSE Some(DigitsVal(Val(group2))),
                   minute, GroupText(group4), day_token))

\* process_message on a command that one of the branches above handles
process_message(branch) ==
    /\ PersistTask(branch.plan)
    /\ reply' = branch.before \o ActiveMsg(last'.ret) \o branch.after[Tid(last')]
    /\ msg' = branch.msg
    /\ UNCHANGED inbound

(***************************************************************************)
(* process_message on a message of a chat: the buyer-store session first,  *)
(* the commands after it                                                   *)
(***************************************************************************)
\* a row of order_chat_session
SessionRow(buyer_chat_id, store_chat_id, active) ==
    [buyer_chat_id |-> buyer_chat_id, store_chat_id |-> store_chat_id, active |-> active]

\* SELECT ... WHERE active=1 AND (buyer_chat_id=? OR store_chat_id=?) and
\* fetchone(): the ids of the rows the query selects
ActiveSessions(table, chat_id) ==
    {i \in DOMAIN table :
        table[i].active = 1 /\ chat_id \in {table[i].buyer_chat_id, table[i].store_chat_id}}

\* a message sent to a chat
To(chat_id, text) == [to |-> chat_id, text |-> text]

\* send_message(chat_id, text): the message is delivered, or the call raises
send_message(chat_id, text, sent) == IF sent THEN <<To(chat_id, text)>> ELSE << >>

\* the text of the model that the /remind handler reads as "water every 2
\* seconds"
RemindText == "/remind water every 2 seconds"

\* the handlers after the session block, on a text of the model: /remind
\* creates a task, a text that no handler matches does nothing
Command(chat_id, text) ==
    IF StartsWith(Lower(Strip(text)), "/remind")
    THEN LET branch == remind_every("2", "seconds") IN
         /\ PersistTask(branch.plan)
         /\ reply' = [i \in DOMAIN (ActiveMsg(last'.ret) \o branch.after[Tid(last')]) |->
                          To(chat_id, (ActiveMsg(last'.ret) \o branch.after[Tid(last')])[i])]
         /\ msg' = branch.msg
    ELSE /\ last' = Done("none", 0, TRUE, FALSE, text, None, None)
         /\ reply' = << >>
         /\ UNCHANGED <<up, now, tasks, jobs, fired, created, calls, notes, msg, poll, sessions>>

\* process_message(msg) for a text message of chat_id.  With an active
\* session of the chat, /endchat closes it and tells both parties, and any
\* other text goes to the other party; the handler returns.  A send_message
\* that raises is caught by "except Exception: pass" around the block, and
\* the message goes on to the command handlers, as it does without a session.
process_message_from(chat_id, text, sent) ==
    /\ up
    /\ inbound' = Inbound(chat_id, text, sent, ActiveSessions(sessions, chat_id) # {})
    /\ IF ActiveSessions(sessions, chat_id) = {} THEN Command(chat_id, text)
       ELSE \E sess_id \in ActiveSessions(sessions, chat_id) :
            LET buyer_cid == sessions[sess_id].buyer_chat_id
                store_cid == sessions[sess_id].store_chat_id
                target == IF chat_id = buyer_cid THEN store_cid ELSE buyer_cid
                prefix == IF chat_id = buyer_cid THEN "Customer" ELSE "Store"
            IN  IF Lower(Strip(text)) = "/endchat"
                THEN /\ sessions' = [sessions EXCEPT ![sess_id].active = 0]
                     /\ reply' = IF sent
                                 THEN send_message(buyer_cid, "Chat closed.", TRUE)
                                          \o send_message(store_cid, "Chat closed.", TRUE)
                                 ELSE << >>
                     /\ last' = Done("endchat", sess_id, sent, FALSE, text, None, None)
                     /\ UNCHANGED <<up, now, tasks, jobs, fired, created, calls, notes, msg, poll>>
                ELSE IF sent
                THEN /\ reply' = send_message(target, prefix \o ":\n" \o text, TRUE)
                     /\ last' = Done("forward", sess_id, TRUE, FALSE, text, None, None)
                     /\ UNCHANGED <<up, now, tasks, jobs, fired, created, calls, notes, msg,
                                    poll, sessions>>
                ELSE Command(chat_id, text)

(***************************************************************************)
(* SpecChat: a buyer, a store and a third chat send messages, with and     *)
(* without an active session between the buyer and the store.              *)
(***************************************************************************)
BuyerChat == "1001"
StoreChat == "1002"
OtherChat == "1003"

ChatTexts == {"/endchat", " /EndChat ", "hello", RemindText}

InitChat ==
    /\ up = TRUE
    /\ now = 0
    /\ tasks = << >>
    /\ jobs = << >>
    /\ fired = [i \in TaskIds |-> 0]
    /\ created = [i \in TaskIds |-> None]
    /\ last = Idle("init")
    /\ calls = NoCalls
    /\ notes = << >>
    /\ reply = << >>
    /\ msg = NoMsg
    /\ poll = NoPoll
    /\ sessions \in {<< >>, <<SessionRow(BuyerChat, StoreChat, 1)>>}
    /\ inbound = NoInbound

NextChat ==
    \/ \E chat_id \in {BuyerChat, StoreChat, OtherChat}, text \in ChatTexts, sent \in BOOLEAN :
          process_message_from(chat_id, text, sent)
    \/ Advance

SpecChat == InitChat /\ [][NextChat]_vars

(***************************************************************************)
(* SpecCmd: one /remind or /emailsummary command on a running process with *)
(* an empty table, and the fires of the job it installs.                   *)
(***************************************************************************)
OrderUnits ==
    {"second", "seconds", "minute", "minutes", "hour", "hours", "day", "days", "week", "weeks"}
ReminderUnits == OrderUnits \ {"week", "weeks"}
OnceUnits == {"second", "seconds", "minute", "minutes", "hour", "hours"}

\* the digits of N: the intervals of the model, and a number of days that
\* leads past the year 9999
Nums == {DecStr(n) : n \in 1..MaxInterval}
HugeNum == "3000000"

Minutes == {None, Some("00"), Some("30")}

\* the times of day H[am|pm]
TimesOfDay ==
    {<<h, None>> : h \in {"0", "9", "12", "23"}}
        \cup {<<h, Some(a)>> : h \in {"1", "9", "11", "12"}, a \in {"am", "pm"}}

DayTokens == {"monday", "mon", "wed", "friday", "sun", "sunday"}

PlansOfModel == PlansOver({MinutelyRule, DailyAtRule, "RRULE:FREQ=DAILY;INTERVAL=" \o HugeNum})

\* the commands of the model at time t, by the branch that handles them
Commands(t) ==
    {remind_order_recurring(g, unit) :
        g \in {None} \cup {Some(n) : n \in Nums}, unit \in OrderUnits}
    \cup {remind_order_recurring(Some(HugeNum), unit) : unit \in {"day", "days", "week"}}
    \cup {remind_order_once(n, unit, t) : n \in Nums, unit \in OnceUnits}
    \cup {remind_every(n, unit) : n \in Nums, unit \in ReminderUnits}
    \cup {remind_every(HugeNum, unit) : unit \in {"day", "days"}}
    \cup {remind_llm(plan) : plan \in PlansOfModel}
    \cup {emailsummary_daily(tm[1], mm, tm[2]) : tm \in TimesOfDay, mm \in Minutes}
    \cup {emailsummary_weekly(day, None, None, None) : day \in DayTokens}
    \cup {emailsummary_weekly(day, Some(tm[1]), mm, tm[2]) :
             day \in DayTokens, tm \in TimesOfDay, mm \in Minutes}

NextCmd ==
    \/ Len(tasks) = 0 /\ \E branch \in Commands(now) : process_message(branch)
    \/ \E task_id \in TaskIds, ok \in BOOLEAN : Fire(task_id, ok)
    \/ Advance

SpecCmd == InitApi /\ [][NextCmd]_vars

(***************************************************************************)
(* SpecPoll: main_loop polls the server while updates arrive and the       *)
(* process dies and starts again.                                          *)
(***************************************************************************)
NextPoll ==
    \/ UpdateArrives
    \/ main_loop
    \/ getUpdates
    \/ save_offset_open
    \/ save_offset_write
    \/ HandleUpdate
    \/ Crash
    \/ Start

SpecPoll == InitApi /\ [][NextPoll]_vars

(***************************************************************************)
(* SpecNotes: the notes of two chats are created, pinned, unpinned and     *)
(* deleted while the clock advances.                                       *)
(***************************************************************************)
Chats == {"1001", "1002"}
Micros == {0, 500000}
NoteIds == 1..MaxNotes

NextNotes ==
    \/ \E chat \in Chats, micro \in Micros : create_note(chat, "milk", micro)
    \/ \E chat \in Chats, note_id \in NoteIds : delete_note(chat, note_id)
    \/ \E chat \in Chats, note_id \in NoteIds : pin_note(chat, note_id)
    \/ \E chat \in Chats, note_id \in NoteIds : unpin_note(chat, note_id)
    \/ Advance

SpecNotes == InitApi /\ [][NextNotes]_vars

(***************************************************************************)
(* Claims                                                                  *)
(***************************************************************************)
\* the job of the operation that just completed is in the job store
LastJobLive == last.task_id \in DOMAIN jobs

\* C1 (SpecApi): a call of schedule_job_for_task for a task id that already
\* has a live job leaves exactly one live job for that id, and that job
\* carries the payload and the rule (hence the trigger) of this second call,
\* registered now.  The job store holds one job per id, so "exactly one"
\* is: the job is there.
C1_IdempotentReplace ==
    (last.op = "schedule" /\ last.had_job) =>
        /\ LastJobLive
        /\ jobs[last.task_id].params = last.params
        /\ jobs[last.task_id].rule = last.rule
        /\ jobs[last.task_id].registered = now

\* C2 (SpecRules): for every rule input (empty, garbage, no FREQ, no RRULE:
\* prefix, non-numeric INTERVAL, out-of-range BYHOUR/BYMINUTE/BYDAY, absent or
\* None), scheduling reports success and leaves a live job for the task id.
C2_FallbackTotal ==
    last.op = "persist" => (last.ret /\ LastJobLive)

\* C3 (Spec): while the process runs and no operation is in progress, every
\* task row with enabled=1 has a live job.  Stated for the tables in which no
\* row is malformed and for the rows that store a rule (not NULL), where
\* neither a skipped row nor a failed registration is in play.
C3_EnabledHasJob ==
    (up /\ \A i \in DOMAIN tasks : JsonOk(tasks[i].params_json)) =>
        \A i \in DOMAIN tasks :
            (tasks[i].enabled = 1 /\ ~IsNone(tasks[i].schedule_rule)) => i \in DOMAIN jobs

\* the unit of an interval trigger that the frequency X stands for
UnitOfFreq(freq) ==
    CASE freq = "SECONDLY" -> "seconds"
      [] freq = "MINUTELY" -> "minutes"
      [] freq = "HOURLY"   -> "hours"
      [] freq = "DAILY"    -> "days"
      [] freq = "WEEKLY"   -> "weeks"

\* the job of the operation that just completed has an interval trigger of n
\* of the unit
LastJobEvery(unit, n) ==
    /\ LastJobLive
    /\ jobs[last.task_id].trigger.kind = "interval"
    /\ jobs[last.task_id].trigger.unit = unit
    /\ jobs[last.task_id].trigger.n = n
    /\ jobs[last.task_id].next_run_time = now + n * UnitSeconds(unit)

\* C4 (SpecRules): scheduling the well-formed rule RRULE:FREQ=X;INTERVAL=n
\* through persist_task_and_schedule installs an interval trigger of n units
\* of X, for every frequency X and every n of the model.
C4_IntervalRule ==
    \A f \in Frequencies, n \in 1..MaxInterval :
        (last.op = "persist" /\ last.raw = Some(IntervalRule(f, n)))
            => LastJobEvery(UnitOfFreq(f), n)

\* the canonical frequency of a singular or plural unit
CanonicalFreq(alias) ==
    CASE alias \in {"MINUTE", "MINUTES"} -> "MINUTELY"
      [] alias \in {"HOUR", "HOURS"}     -> "HOURLY"
      [] alias \in {"DAY", "DAYS"}       -> "DAILY"

\* C5 (SpecRules): normalize_rrule maps RRULE:FREQ=<unit>;INTERVAL=2, for the
\* unit MINUTE, MINUTES, HOUR, HOURS, DAY or DAYS, to the same rule with the
\* canonical frequency, and the job gets the interval of 2 of that unit.
C5_AliasNormalized ==
    \A a \in {"MINUTE", "MINUTES", "HOUR", "HOURS", "DAY", "DAYS"} :
        (last.op = "persist" /\ last.raw = Some("RRULE:FREQ=" \o a \o ";INTERVAL=2"))
            => /\ last.rule = Some(IntervalRule(CanonicalFreq(a), 2))
               /\ LastJobEvery(UnitOfFreq(CanonicalFreq(a)), 2)

\* the text of the rule a job was scheduled from
RuleOf(j) == Val(jobs[j].rule)

\* the value of a qualifier of a job's rule, None when absent
Qualifier(j, key) == PartsGet(RuleParts(RuleOf(j)), key)

\* the rule of job j carries BYHOUR, BYMINUTE or BYDAY
CarriesBy(j) ==
    \E key \in {"BYHOUR", "BYMINUTE", "BYDAY"} : ~IsNone(Qualifier(j, key))

\* ... with a value that is not empty
CarriesByValue(j) ==
    \E key \in {"BYHOUR", "BYMINUTE", "BYDAY"} : Truthy(Qualifier(j, key))

QualifierIn(j, key, lo, hi) ==
    Truthy(Qualifier(j, key)) =>
        IntOk(Val(Qualifier(j, key))) /\ IntVal(Val(Qualifier(j, key))) \in lo..hi

\* the rule of job j is one the cron branch accepts: RRULE: first, no
\* FREQ=ONCE, INTERVAL an integer when present, hour and minute in range, the
\* weekday a cron weekday expression (MON..SUN, 0..6, ranges and lists)
CalendarRuleOk(j) ==
    /\ StartsWith(RuleOf(j), "RRULE:")
    /\ ~Contains(RuleOf(j), "FREQ=ONCE")
    /\ IsNone(Qualifier(j, "INTERVAL")) \/ IntOk(Val(Qualifier(j, "INTERVAL")))
    /\ QualifierIn(j, "BYHOUR", 0, 23)
    /\ QualifierIn(j, "BYMINUTE", 0, 59)
    /\ Truthy(Qualifier(j, "BYDAY")) =>
          \A e \in {Split(Val(Qualifier(j, "BYDAY")), ",")[i] :
                       i \in 1..Len(Split(Val(Qualifier(j, "BYDAY")), ","))} :
              DowItem(e) # {}

UnknownFreq(j) ==
    /\ ~IsNone(Qualifier(j, "FREQ"))
    /\ Val(Qualifier(j, "FREQ")) \notin Frequencies
    /\ ~CarriesByValue(j)

\* C7 as claimed (SpecRules): a rule without BYHOUR/BYMINUTE/BYDAY whose FREQ
\* is not recognized gets the interval trigger of one hour.
C7_UnknownFreqHourly ==
    \A j \in DOMAIN jobs : UnknownFreq(j) =>
        /\ jobs[j].trigger.kind = "interval"
        /\ jobs[j].trigger.unit = "hours"
        /\ jobs[j].trigger.n = 1

\* C7 as amended (SpecRules): such a rule gets no interval: the job has the
\* one-shot trigger 60 seconds after registration.
C7_UnknownFreqOnce ==
    \A j \in DOMAIN jobs : UnknownFreq(j) =>
        jobs[j].trigger = [kind |-> "date", run_date |-> jobs[j].registered + 60]

\* C7 witness: the job of RRULE:FREQ=YEARLY is live with its one-shot trigger
C7_Witness ==
    \E j \in DOMAIN jobs :
        /\ RuleOf(j) = "RRULE:FREQ=YEARLY"
        /\ jobs[j].trigger.kind = "date"
        /\ jobs[j].next_run_time = jobs[j].registered + 60

\* the rows restore reads, and those among them whose params_json is malformed
EnabledRows == {i \in DOMAIN tasks : tasks[i].enabled = 1}
MalformedRows == {i \in EnabledRows : ~JsonOk(tasks[i].params_json)}

\* C8 (Spec): after the restore pass over N enabled rows of which at most one
\* is malformed, there are N live jobs, less one for the malformed row.
C8_RecoveryComplete ==
    (last.op = "restore" /\ Cardinality(MalformedRows) <= 1) =>
        Cardinality(DOMAIN jobs) = Cardinality(EnabledRows) - Cardinality(MalformedRows)

\* C9 (SpecRules): the trigger restore installs for a task created by
\* persist_task_and_schedule is the trigger installed at its creation (the
\* same variant and parameters; a one-shot the same delay after registration).
C9_RestoreSameTrigger ==
    last.op = "restore" =>
        \A j \in DOMAIN jobs : ~IsNone(created[j]) =>
            TriggerShape(jobs[j].trigger, jobs[j].registered) = Val(created[j])

\* C10 (Spec): the payload of a task with a FREQ=ONCE rule is never
\* dispatched twice.
C10_OnceFiresOnce ==
    \A i \in DOMAIN tasks :
        (~IsNone(tasks[i].schedule_rule) /\ Contains(Val(tasks[i].schedule_rule), "FREQ=ONCE"))
            => fired[i] <= 1

\* the job that just fired had the one-shot (date) trigger: the kind of a
\* trigger is decided by the job's rule alone
LastFireWasOnce ==
    last.op = "fire" /\ TriggerForRule(Val(last.rule), now).kind = "date"

\* C11 (SpecRules): after a job with the one-shot trigger has fired, whether
\* its dispatch returned or raised, the job is no longer in the scheduler and
\* the /list_jobs listing has no entry for the task id.
C11_OnceJobRemoved ==
    LastFireWasOnce =>
        /\ last.task_id \notin DOMAIN jobs
        /\ \A e \in list_jobs(jobs) : e.id # last.task_id

\* C11 witness: the one-shot job of a FREQ=ONCE rule has fired, its dispatch
\* raised, and the listing is empty
C11_Witness ==
    /\ LastFireWasOnce
    /\ ~last.ret
    /\ Contains(Val(last.rule), "FREQ=ONCE")
    /\ list_jobs(jobs) = {}

C13_UnknownIdFails ==
    (last.op = "delete" /\ last.task_id \notin DOMAIN tasks /\ ~last.had_job) => ~last.ret

\* C14 (Spec): once the row of a task is disabled by /delete_reminder, no
\* step dispatches the task's payload and no step leaves a job for it in the
\* scheduler, in the running process and after a crash and restart.
C14_NoFireAfterCancel ==
    [][\A i \in DOMAIN tasks :
          tasks[i].enabled = 0 => (fired'[i] = fired[i] /\ i \notin DOMAIN jobs')]_vars

\* C14 witness: a task created in this run was deleted, the process crashed
\* and restarted, and the restore pass left no job for it
C14_Witness ==
    /\ up
    /\ last.op = "restore"
    /\ \E i \in DOMAIN tasks :
          tasks[i].enabled = 0 /\ ~IsNone(created[i]) /\ i \notin DOMAIN jobs

\* C15 (SpecRules): a fire whose dispatch raised leaves the table and every
\* other job as they were; the job that fired keeps its trigger and payload
\* and, when its trigger is an interval or a calendar trigger, stays in the
\* scheduler armed at a later time.
C15_FailureKeepsSchedule ==
    [][(last'.op = "fire" /\ ~last'.ret /\ fired' # fired) =>
          LET i == last'.task_id IN
          /\ tasks' = tasks
          /\ \A j \in DOMAIN jobs \ {i} : j \in DOMAIN jobs' /\ jobs'[j] = jobs[j]
          /\ DOMAIN jobs' \subseteq DOMAIN jobs
          /\ jobs[i].trigger.kind # "date" =>
                /\ i \in DOMAIN jobs'
                /\ jobs'[i].trigger = jobs[i].trigger
                /\ jobs'[i].params = jobs[i].params
                /\ jobs'[i].next_run_time > jobs[i].next_run_time]_vars

\* C15 witness: an interval job has fired twice, the dispatch of the second
\* fire raised, and the job is armed for a third time
C15_Witness ==
    /\ last.op = "fire"
    /\ ~last.ret
    /\ fired[last.task_id] = 2
    /\ last.task_id \in DOMAIN jobs
    /\ jobs[last.task_id].trigger.kind = "interval"
    /\ jobs[last.task_id].next_run_time > now

\* C16 (SpecRace): under every interleaving of the calls of
\* schedule_job_for_task for one task id with each other and with the job's
\* fire, no call raises, and when all calls have returned the task id has its
\* live job.  (The job store is keyed by job id, so it never holds two jobs
\* for one id.)
C16_RegistrationsSerialize ==
    /\ \A th \in Threads : calls[th].pc # "raised"
    /\ (last.op = "register" /\ \A th \in Threads : calls[th].pc = "returned") =>
           \A th \in Threads : calls[th].task_id \in DOMAIN jobs

\* C17 (SpecClock): an interval job of n >= 1 units, of period p, registered
\* at time t is first due at t + p, and after k fires it is due at
\* t + (k + 1) * p, however late each fire was dispatched.
C17_IntervalGrid ==
    \A j \in DOMAIN jobs :
        (jobs[j].trigger.kind = "interval" /\ jobs[j].trigger.n >= 1) =>
            LET p == jobs[j].trigger.n * UnitSeconds(jobs[j].trigger.unit) IN
            /\ jobs[j].next_run_time = jobs[j].registered + (fired[j] + 1) * p
            /\ jobs[j].next_run_time > jobs[j].registered

\* C17 witness: an interval job has fired twice, the second fire was
\* dispatched after its scheduled time, and the third is due at t + 3p
C17_Witness ==
    \E j \in DOMAIN jobs :
        LET p == jobs[j].trigger.n * UnitSeconds(jobs[j].trigger.unit) IN
        /\ jobs[j].trigger.kind = "interval"
        /\ last.op = "fire"
        /\ fired[j] = 2
        /\ now > jobs[j].registered + 2 * p
        /\ jobs[j].next_run_time = jobs[j].registered + 3 * p

\* the earliest instant at or after t that is hour:minute on one of the
\* weekdays (Monday is 0; second 0 is a Monday 00:00)
EarliestMatch(t, hour, minute, weekdays) ==
    LET at(d) == d * 86400 + hour * 3600 + minute * 60
        ok(d) == (d % 7) \in weekdays /\ at(d) >= t
        days == (t \div 86400)..((t \div 86400) + 7)
    IN  at(CHOOSE d \in days : ok(d) /\ \A e \in days : ok(e) => d <= e)

\* calendar rules with the hour, minute and weekdays they stand for
CalendarCases ==
    {<<DailyAtRule, 9, 30, 0..6>>,
     <<"RRULE:FREQ=DAILY;BYHOUR=0", 0, 0, 0..6>>,
     <<"RRULE:BYMINUTE=15", 9, 15, 0..6>>,
     <<"RRULE:FREQ=WEEKLY;BYDAY=SUN", 9, 0, {6}>>,
     <<WeeklyMondayRule, 9, 0, {0}>>}

\* C18 (SpecClock): the job of a calendar rule is due at the earliest instant
\* at or after its registration that matches the rule's hour and minute on a
\* weekday of the rule, the next qualifying day when today's instant has
\* passed; the weekly Monday 09:00 rule registered on Monday 10:00 is due the
\* following Monday 09:00.
C18_CalendarNextFire ==
    \A c \in CalendarCases :
        (last.op = "persist" /\ last.raw = Some(c[1])) =>
            /\ LastJobLive
            /\ jobs[last.task_id].next_run_time = EarliestMatch(now, c[2], c[3], c[4])

\* C19 (SpecRules): parsing a rule gives a calendar trigger, the arguments of
\* an interval, or no trigger, and never an error its caller sees: scheduling a
\* str rule reports success and leaves a job, and the job of a rule without
\* FREQ=ONCE for which parsing gives no trigger has the one-shot trigger 60
\* seconds after registration.
C19_NoTriggerFallsBack ==
    /\ (last.op = "persist" /\ ~IsNone(last.rule)) => (last.ret /\ LastJobLive)
    /\ \A j \in DOMAIN jobs :
           LET kw == parse_rrule_to_interval_kwargs(RuleOf(j)) IN
           /\ kw.kind \in {"cron", "kwargs", "none"}
           /\ (kw.kind = "none" /\ ~Contains(RuleOf(j), "FREQ=ONCE")) =>
                  jobs[j].trigger = [kind |-> "date", run_date |-> jobs[j].registered + 60]

\* C19 witness: the job of a rule whose BYHOUR is not a number (int() raises
\* inside the parser) is live with the fallback one-shot trigger
C19_Witness ==
    \E j \in DOMAIN jobs :
        /\ RuleOf(j) = "RRULE:FREQ=DAILY;BYHOUR=NINE"
        /\ parse_rrule_to_interval_kwargs(RuleOf(j)) = NoTrigger
        /\ jobs[j].trigger.kind = "date"
        /\ jobs[j].next_run_time = jobs[j].registered + 60

\* C20 (Spec): the step of the restore pass leaves the task table as it was,
\* whatever the rows hold.
C20_RestoreReadOnly ==
    [][(~up /\ up') => tasks' = tasks]_vars

\* C20 witness: the restore pass has run over a table with a malformed row,
\* after registering the job of a row before it
C20_Witness ==
    /\ up
    /\ last.op = "restore"
    /\ MalformedRows # {}
    /\ DOMAIN jobs # {}

\* C21 (Spec): the restore pass runs at every start of the process and only
\* then (once per start), and it is complete, its jobs installed, in the state
\* in which the process begins to handle requests: every registration and
\* cancellation is a step of a process that is up.
C21_RestoreOnceBeforeRequests ==
    [][/\ (~up /\ up') =>
           (last'.op = "restore" /\ jobs' = restore_saved_reminders_from_db(<< >>, tasks, now))
       /\ (last'.op = "restore" /\ last' # last) => (~up /\ up')
       /\ (last'.op \in {"persist", "delete"} /\ last' # last) => (up /\ up')]_vars

\* C21 witness: a task is registered by a live request while the job that the
\* restore pass installed for a row of the table found at start is live
C21_Witness ==
    /\ last.op = "persist"
    /\ \E j \in DOMAIN jobs : IsNone(created[j]) /\ j < last.task_id

\* the qualifiers of a rule text other than FREQ and UNTIL, in order
OtherParts(rule) ==
    SelectSeq(RuleParts(Strip(rule)), LAMBDA kv : kv[1] \notin {"FREQ", "UNTIL"})

\* the rule text gives UNTIL a value
HasUntil(rule) == Truthy(PartsGet(RuleParts(Strip(rule)), "UNTIL"))

\* C22 (SpecRules): for a rule that gives UNTIL a value, wherever the
\* qualifier stands, the normalized rule has no UNTIL qualifier and no
\* "UNTIL=" text, names a frequency exactly when the rule does, and has the
\* rule's other qualifiers with their values in the same order.
C22_UntilStripped ==
    (last.op = "persist" /\ ~IsNone(last.raw) /\ HasUntil(Val(last.raw))) =>
        /\ ~IsNone(last.rule)
        /\ ~Contains(Val(last.rule), "UNTIL=")
        /\ IsNone(PartsGet(RuleParts(Val(last.rule)), "UNTIL"))
        /\ IsNone(PartsGet(RuleParts(Val(last.rule)), "FREQ"))
              = IsNone(PartsGet(RuleParts(Strip(Val(last.raw))), "FREQ"))
        /\ OtherParts(Val(last.rule)) = OtherParts(Val(last.raw))

\* C22 witness: the rule with UNTIL first and the rule with UNTIL twice have
\* been normalized and the qualifier after UNTIL is still there
C22_Witness ==
    /\ last.op = "persist"
    /\ last.raw \in {Some("RRULE:UNTIL=20270101T000000Z;FREQ=DAILY;INTERVAL=2"),
                     Some("RRULE:FREQ=DAILY;UNTIL=20270101;BYHOUR=7;UNTIL=20280101")}
    /\ Len(OtherParts(Val(last.rule))) = 1
    /\ LastJobLive

\* the rows of the note table, and those a delete_note call is about
NoteSet(table) == {table[i] : i \in DOMAIN table}
NotesHit(table, user_chat_id, note_id) ==
    {r \in NoteSet(table) : r.user_chat_id = user_chat_id /\ r.id = note_id}

\* C23 (SpecNotes): delete_note(chat, id) returns True exactly when the chat
\* has a note with the id, then that note and only it is gone; otherwise it
\* returns False and the table is unchanged.  The notes of other chats and the
\* chat's other notes are kept as they are, in both cases.
C23_DeleteNoteFrame ==
    [][last'.op = "delete_note" =>
          LET hit == NotesHit(notes, last'.params, last'.task_id) IN
          /\ last'.ret = (hit # {})
          /\ NoteSet(notes') = NoteSet(notes) \ hit
          /\ Len(notes') = Len(notes) - Cardinality(hit)
          /\ Cardinality(hit) <= 1
          /\ hit = {} => notes' = notes
          /\ reply' = IF hit # {} THEN <<"Deleted note">> ELSE <<"No note found">>]_vars

\* C23 witness: a chat asked to delete a note id that belongs to the other
\* chat: False, and the note is still there
C23_Witness ==
    /\ last.op = "delete_note"
    /\ ~last.ret
    /\ \E r \in NoteSet(notes) : r.id = last.task_id /\ r.user_chat_id # last.params

\* C24 (SpecNotes): every result list_notes(chat) may give holds exactly the
\* notes of the chat, each once, all pinned notes before all unpinned ones
\* and, within each group, a note created later never after one created
\* earlier; and there is such a result.
C24_ListNotesOrder ==
    \A chat \in Chats :
        /\ list_notes(notes, chat) # {}
        /\ \A f \in list_notes(notes, chat) :
              /\ {f[i] : i \in DOMAIN f} = {r \in NoteSet(notes) : r.user_chat_id = chat}
              /\ \A i, j \in DOMAIN f : i # j => f[i].id # f[j].id
              /\ \A i, j \in DOMAIN f : i < j =>
                    /\ ~(f[i].pinned = 0 /\ f[j].pinned = 1)
                    /\ f[i].pinned = f[j].pinned => f[i].at >= f[j].at

\* C24 witness: a chat has three notes; the oldest is pinned and listed
\* first, the newest was just unpinned and is listed before the middle one
C24_Witness ==
    \E chat \in Chats : \E f \in list_notes(notes, chat) :
        /\ Len(f) = 3
        /\ f[1].pinned = 1 /\ f[2].pinned = 0
        /\ f[1].at < f[3].at /\ f[3].at < f[2].at
        /\ last.op = "unpin_note"

\* the rule is in canonical form: RRULE: prefix, one of the five canonical
\* frequencies, no UNTIL qualifier, no surrounding blanks
IsCanonical(rule) ==
    /\ StartsWith(rule, "RRULE:")
    /\ Strip(rule) = rule
    /\ ~Contains(rule, "UNTIL=")
    /\ ~Contains(rule, "EVERYDAY")
    /\ \E f \in Frequencies : PartsGet(RuleParts(rule), "FREQ") = Some(f)

\* C25 (SpecRules): normalizing the normalized rule of a task gives the same
\* text again, and a rule that is already canonical is scheduled as it was
\* written.
C25_NormalizeIdempotent ==
    (last.op = "persist" /\ ~IsNone(last.raw)) =>
        /\ normalize_rrule(last.rule) = last.rule
        /\ IsCanonical(Val(last.raw)) => last.rule = last.raw

\* C26 (SpecApi): a call of schedule_job_for_task for a task id that has a
\* live job, and that fails, leaves that job as it was: same trigger, same
\* payload, same next run time.
C26_FailedKeepsOldJob ==
    [][(last'.op = "schedule" /\ last' # last /\ last'.had_job /\ ~last'.ret) =>
          /\ last'.task_id \in DOMAIN jobs'
          /\ jobs'[last'.task_id] = jobs[last'.task_id]]_vars

\* C27 (Spec): every live job belongs to a row of the task table with the
\* job's task id and enabled=1.
C27_JobsHaveEnabledRows ==
    \A j \in DOMAIN jobs : j \in DOMAIN tasks /\ tasks[j].enabled = 1

\* C27 witness: after a restart, one reminder is live again and a deleted
\* one, which had a job before, has none
C27_Witness ==
    /\ up
    /\ last.op = "restore"
    /\ \E j \in DOMAIN jobs : tasks[j].enabled = 1
    /\ \E i \in DOMAIN tasks :
          tasks[i].enabled = 0 /\ i \notin DOMAIN jobs /\ ~IsNone(created[i])

\* a message that confirms a schedule, and one that reports a failure
IsConfirmation(m) ==
    StartsWith(m, "Scheduled") \/ StartsWith(m, "Created") \/ Contains(m, "scheduled and active")
IsFailure(m) == StartsWith(m, "Failed")

\* C28 (SpecCmd): after a /remind or /emailsummary command, a confirmation
\* is among the messages sent only if persist_task_and_schedule returned a
\* task id; when it returned None, a failure message is sent and no message
\* says "Scheduled".
C28_ConfirmOnlyOnSuccess ==
    last.op = "persist" =>
        /\ (\E i \in DOMAIN reply : IsConfirmation(reply[i])) => last.ret
        /\ ~last.ret =>
              /\ \E i \in DOMAIN reply : IsFailure(reply[i])
              /\ \A i \in DOMAIN reply : ~Contains(reply[i], "Scheduled")

\* the unit of an interval trigger that the unit word of a command stands for
UnitOfWord(unit) ==
    CASE unit \in {"second", "seconds"} -> "seconds"
      [] unit \in {"minute", "minutes"} -> "minutes"
      [] unit \in {"hour", "hours"}     -> "hours"
      [] unit \in {"day", "days"}       -> "days"
      [] unit \in {"week", "weeks"}     -> "weeks"

\* C29 (SpecCmd): "/remind ... every N <unit>", as a reminder or as an order,
\* installs an interval trigger of exactly N of the unit, for every unit word
\* the command accepts and every N of the model.
C29_EveryNUnits ==
    (last.op = "persist" /\ msg.cmd \in {"remind_order", "remind_every"}
        /\ msg.num \in 1..MaxInterval)
        => LastJobEvery(UnitOfWord(msg.unit), msg.num)

\* the hour of the 24-hour clock that H, H am or H pm names
Clock24(hour, ampm) ==
    CASE ampm = "am" -> hour % 12
      [] ampm = "pm" -> (hour % 12) + 12
      [] OTHER       -> hour

\* the number of the weekday a weekday word names, Monday 0
WeekdayOfWord(day) ==
    CASE day \in {"monday", "mon"}    -> 0
      [] day \in {"tuesday", "tue"}   -> 1
      [] day \in {"wednesday", "wed"} -> 2
      [] day \in {"thursday", "thu"}  -> 3
      [] day \in {"friday", "fri"}    -> 4
      [] day \in {"saturday", "sat"}  -> 5
      [] day \in {"sunday", "sun"}    -> 6

\* the daily half of C30: the job fires every day at the time asked for
DailyAtTimeAsked ==
    (last.op = "persist" /\ msg.cmd = "emailsummary_daily") =>
        /\ LastJobLive
        /\ jobs[last.task_id].trigger
              = CronTrigger("*", Clock24(Val(msg.hour), msg.ampm), msg.minute)

\* the weekly half of C30: the job fires on the weekday and at the time asked
\* for, at 09:00 when no time is given
WeeklyAtTimeAsked ==
    (last.op = "persist" /\ msg.cmd = "emailsummary_weekly") =>
        /\ LastJobLive
        /\ jobs[last.task_id].trigger.kind = "cron"
        /\ DowDays(jobs[last.task_id].trigger.day_of_week) = {WeekdayOfWord(msg.day)}
        /\ jobs[last.task_id].trigger.hour
              = (IF IsNone(msg.hour) THEN 9 ELSE Clock24(Val(msg.hour), msg.ampm))
        /\ jobs[last.task_id].trigger.minute = msg.minute

\* C30 (SpecCmd): "/emailsummary every day at H[:MM][am|pm]" and the weekly
\* form "... on <weekday> [at H[:MM][am|pm]]" install a calendar trigger at
\* the 24-hour equivalent of the time (12am is 0, 12pm is 12, H pm is H+12),
\* the weekly one on the weekday named and at 09:00 when no time is given.
C30_EmailSummaryCalendar == DailyAtTimeAsked /\ WeeklyAtTimeAsked

\* the update main_loop is about to hand to its handler
Current == Head(poll.batch)

\* the first part of C31: when an update is handed to its handler, the
\* offset file holds its update_id + 1
SavedBeforeHandled == poll.pc = "handle" => poll.file = Some(Current + 1)

\* the second part of C31: the offset the file holds is never below one it
\* held before
OffsetNeverDecreases == ~IsNone(poll.file) => Val(poll.file) = poll.high

\* the third part of C31: no update is handed to a handler twice
HandledAtMostOnce == \A u \in 1..MaxUpdates : poll.handled[u] <= 1

\* C31 (SpecPoll): main_loop persists update_id + 1 before it hands an
\* update to process_message or handle_callback_query, the persisted offset
\* never decreases, and no update is handled twice, whatever the points at
\* which the process dies and starts again.
C31_AtMostOnce == SavedBeforeHandled /\ OffsetNeverDecreases /\ HandledAtMostOnce

\* process_message has just returned
JustHandled == last.op \in {"persist", "none", "forward", "endchat"}

\* the message just handled came from a chat with an active session and is
\* not /endchat
InSessionText ==
    JustHandled /\ inbound.in_session /\ Lower(Strip(inbound.text)) # "/endchat"

\* the party of the model's session other than the chat
OtherParty(chat_id) == IF chat_id = BuyerChat THEN StoreChat ELSE BuyerChat

\* the first half of C32: a text from a chat in a session, other than
\* /endchat, creates or deletes no task, whether or not it could be
\* forwarded, and when it could, it went to the other party and nowhere else
ForwardedNotCommand ==
    InSessionText =>
        /\ last.op \notin {"persist", "delete"}
        /\ inbound.sent =>
              /\ Len(reply) = 1
              /\ reply[1].to = OtherParty(inbound.chat_id)
              /\ Contains(reply[1].text, inbound.text)

\* the second half of C32: /endchat from a chat in a session leaves the chat
\* without an active session and, when the messages could be sent, tells the
\* buyer and the store; a /remind from a chat without a session is a command
EndchatThenCommands ==
    /\ (JustHandled /\ inbound.in_session /\ ~InSessionText) =>
          /\ ActiveSessions(sessions, inbound.chat_id) = {}
          /\ inbound.sent => {reply[i].to : i \in DOMAIN reply} = {BuyerChat, StoreChat}
    /\ (JustHandled /\ ~inbound.in_session /\ inbound.text = RemindText)
          => last.op = "persist"

\* C32 (SpecChat): while a chat has an active buyer-store session, a text
\* from it other than /endchat is forwarded to the other party and creates
\* or deletes no task, even if forwarding fails; /endchat closes the session
\* and tells both parties, and afterwards the messages of both chats are
\* commands again.
C32_SessionForwards == ForwardedNotCommand /\ EndchatThenCommands

====
